---- MODULE Spec2Model ----
(***************************************************************************)
(* Buoy Tracker (guthip/buoy-tracker): the ingest-and-state subsystem.     *)
(*                                                                         *)
(* The Python modules keep their state in module-level globals.  Each      *)
(* global is one variable here, under its source name.  A Python function  *)
(* that reads and writes those globals is an operator from a state record  *)
(* S (one field per global) to the state record after the call, so that a  *)
(* handler that calls helpers is the composition of their operators.  An   *)
(* action of the specification is one whole handler applied to the current *)
(* state.  SpecThreads takes on_position and get_nodes statement by        *)
(* statement, on two threads, and SpecStartup does the same for            *)
(* start_mqtt_on_startup and connect_mqtt, from the same operators.        *)
(*                                                                         *)
(* Python's None (and an absent dict key read with .get) is the empty      *)
(* tuple None; a present value v is the one-element tuple Some(v).         *)
(* A Python dict is a function whose domain is the set of its keys.        *)
(***************************************************************************)
EXTENDS Integers, Sequences, FiniteSets, TLC

VARIABLES
    now,                \* the wall clock read by time.time(), in clock ticks
    tracker_config,     \* the file tracker.config
    \* ---- config.py (module globals, reloaded by update_special_nodes)
    SPECIAL_NODES,
    SPECIAL_MOVEMENT_THRESHOLD_METERS,
    ALERT_ENABLED,
    \* ---- alerts.py
    last_alert_sent,
    \* ---- history variables of the alert dispatcher (not program state)
    emitted,            \* the e-mails the SMTP server accepted, in order
    last_call,          \* what the most recent send_*_alert call did
    \* ---- mqtt_handler.py
    nodes_data,
    special_node_packets,
    _packet_id_tracking,
    special_node_gateways,
    special_node_gateways_order,   \* insertion order of special_node_gateways
    node_is_gateway,
    gateway_reliability_cache,
    all_gateway_node_ids,
    gateway_info_cache,
    special_history,
    special_node_position_timestamps,
    special_node_last_packet,
    client,
    message_received,
    packets_received,
    last_message_time,
    last_packet_time,
    mqtt_was_connected,
    clients,            \* the paho Client objects that exist, by object id
    last_connack,       \* history: the connect event the last step delivered
    last_packet_arrival,   \* history: when the last packet was received
    \* ---- main.py
    main_mqtt_thread,   \* the global mqtt_thread: a background thread or None
    background_threads, \* the threads running run_mqtt_in_background
    request_threads,    \* Flask request threads in start_mqtt_on_startup
    \* ---- history variables of the packet archive (not program state)
    observed_best,      \* per special node and packet id: best score seen
    last_track,         \* what the most recent _track_special_node_packet did
    last_msg,           \* the MQTT message the last step delivered, or None
    position_log,       \* history: the position packets of special nodes
    \* ---- main.py: the rate limiter of the web API
    rate_limiter,       \* the global SimpleRateLimiter: its request_history
    limit_threads,      \* Flask request threads inside check_rate_limit
    decisions,          \* history: what is_allowed answered, in lock order
    caught,             \* history: how many messages failed in processing
    app_features,       \* config.SHOW_ALL_NODES and config.SHOW_GATEWAYS
    status_reply,       \* history: the latest answer of is_connected()
    \* ---- the two threads that share mqtt_handler's globals
    mqtt_thread,        \* paho's network loop: where it is in the callback
    http_thread,        \* a Flask request thread: where it is in get_nodes
    committed           \* history: per node, the positions on_position left

----------------------------------------------------------------------------
(* Values *)

None == <<>>
Some(v) == <<v>>
Val(o) == o[1]
IsNone(o) == o = <<>>

Max(a, b) == IF a >= b THEN a ELSE b
Min(a, b) == IF a <= b THEN a ELSE b

EmptyDict == <<>>
DictSet(d, k, v) == (k :> v) @@ d
DictDel(d, ks) == [k \in (DOMAIN d) \ ks |-> d[k]]

----------------------------------------------------------------------------
(* Bounds of the model *)

MaxTime == 7            \* the clock stops here
MaxAlerts == 2          \* length of the log of accepted e-mails

(* Program constants.  One clock tick is 30 minutes. *)
HOUR == 2                       \* 3600 seconds, in clock ticks
ALERT_COOLDOWN == 1 * HOUR      \* [alerts] alert_cooldown = 1
SPECIAL_HISTORY_HOURS == 2      \* [app_features] trail_history_hours = 2
LOW_BATTERY_THRESHOLD == 50     \* [battery] low_battery_threshold

SpecialIds == {1, 2}    \* the node ids configured in [special_nodes]

RequestThreads == {1, 2}    \* Flask request threads (app.run threaded=True)
MaxThreads == 3             \* background threads created in one run
MaxSubscribes == 2          \* accepted connects of one client
MaxSeenTime == 3            \* the clock of SpecUplink and SpecLastSeen stops here

----------------------------------------------------------------------------
(* alerts.py *)

(* The keys of last_alert_sent: send_movement_alert uses the int node_id,  *)
(* send_battery_alert the str f"{node_id}_battery".                        *)
MovementKey(node_id) == [id |-> node_id, suffix |-> ""]
BatteryKey(node_id) == [id |-> node_id, suffix |-> "_battery"]

(* `key in config.SPECIAL_NODE_IDS`: the list holds ints, and in Python a  *)
(* str never equals an int.                                                *)
KeyInSpecialNodeIds(key, ids) == key.suffix = "" /\ key.id \in ids

_cleanup_alert_history(S) ==
    LET max_age == ALERT_COOLDOWN * 3
        cutoff_time == S.now - max_age
        to_remove == {k \in DOMAIN S.last_alert_sent :
                        \/ ~KeyInSpecialNodeIds(k, DOMAIN S.SPECIAL_NODES)
                        \/ S.last_alert_sent[k] < cutoff_time}
    IN [S EXCEPT !.last_alert_sent = DictDel(S.last_alert_sent, to_remove)]

(* _send_email: every SMTP error is caught and logged inside the function  *)
(* (alerts.py:213), so the caller sees a normal return either way.  The    *)
(* e-mail is delivered iff smtp_ok.                                        *)
_send_email(S, key, smtp_ok) ==
    IF smtp_ok
    THEN [S EXCEPT !.emitted = Append(S.emitted, [key |-> key, t |-> S.now])]
    ELSE S

(* The part of send_movement_alert and send_battery_alert after the key is *)
(* chosen: cooldown check, ALERT_ENABLED check, send, timestamp.           *)
NoCooldown(S, key) == FALSE
(* alerts.py:59-67: the last alert of this key is less than a cooldown old *)
InCooldown(S, key) ==
    /\ key \in DOMAIN S.last_alert_sent
    /\ S.now - S.last_alert_sent[key] < ALERT_COOLDOWN

SendAlertWithKey(S, key, smtp_ok) ==
    LET before == IF key \in DOMAIN S.last_alert_sent
                  THEN Some(S.last_alert_sent[key]) ELSE None
        Call(outcome) == [key |-> key, outcome |-> outcome, before |-> before]
    IN  IF InCooldown(S, key)
        THEN [S EXCEPT !.last_call = Call("cooldown_skip")]
        ELSE IF ~S.ALERT_ENABLED
        THEN [S EXCEPT !.last_call = Call("disabled")]
        ELSE [_send_email(S, key, smtp_ok) EXCEPT
                !.last_alert_sent = DictSet(@, key, S.now),
                !.last_call = Call(IF smtp_ok THEN "sent" ELSE "smtp_failed")]

send_movement_alert(S, node_id, smtp_ok) ==
    SendAlertWithKey(_cleanup_alert_history(S), MovementKey(node_id), smtp_ok)

send_battery_alert(S, node_id, smtp_ok) ==
    SendAlertWithKey(S, BatteryKey(node_id), smtp_ok)

----------------------------------------------------------------------------
(* mqtt_handler.py: node records *)

(* A node record of nodes_data.  A key that is absent and a key that holds *)
(* None read the same through .get, so both are None here.  Keys that no   *)
(* handler reads back (channel, altitude, short_name, hw_model, role,      *)
(* best_gateway_rssi) are left out; of the telemetry sub-dict the record   *)
(* keeps the battery_level and the voltage of device_metrics.              *)
EmptyNode ==
    [ latitude |-> None, longitude |-> None,
      last_seen |-> None, last_position_update |-> None,
      origin_lat |-> None, origin_lon |-> None,
      distance_from_origin_m |-> None, moved_far |-> None,
      is_gateway |-> None, best_gateway |-> None,
      rx_rssi |-> None, rx_snr |-> None,
      battery |-> None, voltage |-> None,
      long_name |-> None, modem_preset |-> None,
      telemetry |-> None ]

(* nodes_data.get(node_id, {}) *)
NodeGet(S, node_id) ==
    IF node_id \in DOMAIN S.nodes_data THEN S.nodes_data[node_id] ELSE EmptyNode

(* if node_id not in nodes_data: nodes_data[node_id] = {} *)
EnsureNode(S, node_id) ==
    IF node_id \in DOMAIN S.nodes_data THEN S
    ELSE [S EXCEPT !.nodes_data = DictSet(S.nodes_data, node_id, EmptyNode)]

_is_special_node(S, node_id) == node_id \in DOMAIN S.SPECIAL_NODES

(* Python's int() of the quotient num/den: truncation toward zero. *)
IntTrunc(num, den) ==
    IF num >= 0 THEN num \div den ELSE -((-num) \div den)

----------------------------------------------------------------------------
(* mqtt_handler.py: the packet archive of a special node *)

(* a weaker test than IsDirectHop: both hop fields present *)
HasBothHops(j) == j.hop_start # None /\ j.hop_limit # None

(* lines 310 and 598: is_direct_hop *)
IsDirectHop(j) ==
    /\ j.hop_start # None
    /\ j.hop_limit # None
    /\ j.hop_start = j.hop_limit

_get_signal_quality_score(j) ==
    (IF IsDirectHop(j) THEN 1000 ELSE 0)
    + (IF j.rx_snr # None
       THEN Max(0, Min(50, IntTrunc((Val(j.rx_snr) + 20) * 5, 2))) ELSE 0)
    + (IF j.rx_rssi # None
       THEN Max(0, Min(40, Val(j.rx_rssi) + 120)) ELSE 0)

(* The archived copy.  The payload fields copied per packet type play no   *)
(* part in deduplication and are left out.                                 *)
_build_packet_info(node_id, packet_type, j, current_time) ==
    [ timestamp |-> current_time,
      packet_type |-> packet_type,
      id |-> j.id,
      hop_start |-> j.hop_start,
      hop_limit |-> j.hop_limit,
      rx_rssi |-> j.rx_rssi,
      rx_snr |-> j.rx_snr,
      mqtt_topic |-> j.mqtt_topic ]

(* An MQTT topic is the sequence of its '/'-separated segments.  A segment *)
(* is [bang, hex]: bang says that it starts with '!', hex is the value of  *)
(* int(part[1:], 16), or None where that raises ValueError.                *)
(* _extract_gateway_node_id_from_topic returns the value of the first '!'  *)
(* segment, and None when there is none or when int() raised.              *)
_extract_gateway_node_id_from_topic(topic) ==
    LET bangs == {i \in 1..Len(topic) : topic[i].bang}
    IN  IF bangs = {} THEN None
        ELSE topic[CHOOSE i \in bangs : \A k \in bangs : i <= k].hex

(* Python truthiness of an optional int: None and 0 are false. *)
Truthy(o) == o # None /\ Val(o) # 0

(* d.get(key, default) on a dict with string keys *)
RecGet(d, key, default) == IF key \in DOMAIN d THEN d[key] ELSE default

RECURSIVE SumSeq(_)
SumSeq(q) == IF q = <<>> THEN 0 ELSE Head(q) + SumSeq(Tail(q))

----------------------------------------------------------------------------
(* mqtt_handler.py: gateway edges *)

(* lines 639-677, for a non-empty list; avg_rssi is the exact quotient sum/n *)
ReliabilityOf(detection_count, has_direct, rssi_values) ==
    LET n == Len(rssi_values)
        sum == SumSeq(rssi_values)
    IN [score |-> (IF has_direct THEN 40 ELSE 20)
                  + (IF detection_count >= 4 THEN 30
                     ELSE Min(30, detection_count * 10))
                  + (IF n = 0 THEN 0
                     ELSE Max(0, Min(30, IntTrunc(sum + 120 * n, n)))),
        detection_count |-> detection_count,
        avg_rssi |-> IF n = 0 THEN None ELSE Some([sum |-> sum, n |-> n]),
        confidence_level |-> IF has_direct THEN "direct" ELSE "partial"]

RssiValues(with_rssi) == [i \in 1..Len(with_rssi) |-> Val(with_rssi[i].rssi)]

_calculate_gateway_reliability_score(gateway_detections) ==
    IF gateway_detections = <<>>
    THEN [score |-> 0, detection_count |-> 0, avg_rssi |-> None,
          confidence_level |-> "none"]
    ELSE ReliabilityOf(
             Len(gateway_detections),
             \E i \in 1..Len(gateway_detections) :
                 gateway_detections[i].confidence = "direct",
             RssiValues(SelectSeq(gateway_detections, LAMBDA d : d.rssi # None)))

(* gateway_info_cache[gateway_id] is bound to the edge dict object itself, *)
(* not to a copy.  The cache entry is therefore the id of the special node *)
(* whose edge to this gateway it aliases; reading the entry reads          *)
(* special_node_gateways[that id][gateway_id].                             *)
(* the special nodes that hold an edge to gateway_id, in dict order *)
Holders(S, gateway_id) ==
    SelectSeq(S.special_node_gateways_order,
              LAMBDA sid : gateway_id \in DOMAIN S.special_node_gateways[sid])

(* lines 691-699: the loop keeps the first edge, in dict order, of the     *)
(* largest last_seen                                                       *)
MostRecentHolder(S, gateway_id, holders) ==
    LET seen(i) == S.special_node_gateways[holders[i]][gateway_id].last_seen
    IN holders[CHOOSE i \in 1..Len(holders) :
                   /\ \A k \in 1..Len(holders) : seen(k) <= seen(i)
                   /\ \A k \in 1..(i - 1) : seen(k) < seen(i)]

CacheEntry(reliability, current_time) ==
    [score |-> reliability.score,
     detection_count |-> reliability.detection_count,
     avg_rssi |-> reliability.avg_rssi,
     confidence_level |-> reliability.confidence_level,
     last_updated |-> current_time]

UpdateCaches(S, gateway_id, holders) ==
    [S EXCEPT
       !.gateway_reliability_cache =
           DictSet(@, gateway_id,
               CacheEntry(
                   _calculate_gateway_reliability_score(
                       [i \in 1..Len(holders) |->
                           S.special_node_gateways[holders[i]][gateway_id]]),
                   S.now)),
       !.gateway_info_cache =
           IF holders = <<>> THEN @
           ELSE DictSet(@, gateway_id, MostRecentHolder(S, gateway_id, holders)),
       !.all_gateway_node_ids = @ \cup {gateway_id}]

(* an entry of the reliability cache written once and never refreshed *)
_keep_gateway_reliability_cache_for_gateway(S, gateway_id) ==
    IF gateway_id \in DOMAIN S.gateway_reliability_cache THEN S
    ELSE UpdateCaches(S, gateway_id, Holders(S, gateway_id))

(* lines 679-720 *)
_update_gateway_reliability_cache_for_gateway(S, gateway_id) ==
    UpdateCaches(S, gateway_id, Holders(S, gateway_id))

(* the edge map of the special node alone, without the marks on the gateway *)
MarkNoGateway(S, special_node_id, gateway_node_id) ==
    [S EXCEPT
       !.special_node_gateways =
           IF special_node_id \in DOMAIN @ THEN @
           ELSE DictSet(@, special_node_id, EmptyDict),
       !.special_node_gateways_order =
           IF special_node_id \in DOMAIN S.special_node_gateways THEN @
           ELSE Append(@, special_node_id)]
(* lines 485-492 *)
MarkGateway(S, special_node_id, gateway_node_id) ==
    [S EXCEPT
       !.special_node_gateways =
           IF special_node_id \in DOMAIN @ THEN @
           ELSE DictSet(@, special_node_id, EmptyDict),
       !.special_node_gateways_order =
           IF special_node_id \in DOMAIN S.special_node_gateways THEN @
           ELSE Append(@, special_node_id),
       !.nodes_data =
           DictSet(@, gateway_node_id,
               [(IF gateway_node_id \in DOMAIN @ THEN @[gateway_node_id]
                 ELSE EmptyNode) EXCEPT !.is_gateway = Some(TRUE)]),
       !.node_is_gateway = DictSet(@, gateway_node_id, TRUE)]

(* lines 496-510 *)
ConnectionInfo(gateway_info, j, confidence, current_time) ==
    [ name |-> IF gateway_info.long_name # None
                  /\ Val(gateway_info.long_name) # ""
               THEN Val(gateway_info.long_name) ELSE "Unknown",
      lat |-> gateway_info.latitude,
      lon |-> gateway_info.longitude,
      rssi |-> j.rx_rssi,
      snr |-> j.rx_snr,
      last_seen |-> current_time,
      confidence |-> confidence,
      hop_start |-> j.hop_start,
      hop_limit |-> j.hop_limit ]

(* lines 513-520 *)
StoreConnection(S, special_node_id, gateway_node_id, j, confidence) ==
    [S EXCEPT
       !.special_node_gateways[special_node_id] =
           DictSet(@, gateway_node_id,
               ConnectionInfo(NodeGet(S, gateway_node_id), j, confidence, S.now)),
       !.nodes_data[gateway_node_id].last_seen = Some(S.now),
       !.nodes_data[gateway_node_id].rx_rssi =
           IF j.rx_rssi # None THEN j.rx_rssi ELSE @,
       !.nodes_data[gateway_node_id].rx_snr =
           IF j.rx_snr # None THEN j.rx_snr ELSE @]

(* lines 525-528: 0 and an absent value count as -200 *)
RssiOr200(r) == IF r = 0 THEN -200 ELSE r

(* lines 533-537 *)
ShouldUpdate(confidence, current_best, incoming_rssi) ==
    IF confidence = "direct"
       /\ RecGet(current_best, "confidence", "partial") = "partial"
    THEN TRUE
    ELSE /\ confidence = RecGet(current_best, "confidence", "partial")
         /\ incoming_rssi > RssiOr200(RecGet(current_best, "rssi", -200))

BestGateway(gateway_node_id, connection_info, incoming_rssi) ==
    [ id |-> gateway_node_id,
      name |-> connection_info.name,
      lat |-> connection_info.lat,
      lon |-> connection_info.lon,
      rssi |-> incoming_rssi,
      snr |-> connection_info.snr ]

(* lines 522-555 *)
UpdateBestGateway(S, special_node_id, gateway_node_id, j, confidence) ==
    LET stored_best == NodeGet(S, special_node_id).best_gateway
        incoming_rssi == IF Truthy(j.rx_rssi) THEN Val(j.rx_rssi) ELSE -200
    IN  IF ShouldUpdate(confidence,
                        IF stored_best = None THEN EmptyDict ELSE Val(stored_best),
                        incoming_rssi)
        THEN [S EXCEPT !.nodes_data =
                 DictSet(@, special_node_id,
                     [(IF special_node_id \in DOMAIN @ THEN @[special_node_id]
                       ELSE EmptyNode)
                      EXCEPT !.best_gateway =
                          Some(BestGateway(gateway_node_id,
                                   S.special_node_gateways[special_node_id]
                                                          [gateway_node_id],
                                   incoming_rssi))])]
        ELSE S

_record_gateway_connection(S, special_node_id, gateway_node_id, j, confidence) ==
    _update_gateway_reliability_cache_for_gateway(
        UpdateBestGateway(
            StoreConnection(
                MarkGateway(S, special_node_id, gateway_node_id),
                special_node_id, gateway_node_id, j, confidence),
            special_node_id, gateway_node_id, j, confidence),
        gateway_node_id)

_extract_gateway_from_packet(S, special_node_id, j) ==
    IF ~_is_special_node(S, special_node_id) THEN S
    ELSE IF j.mqtt_topic = <<>> THEN S
    ELSE IF ~IsDirectHop(j) THEN S
    ELSE LET gateway_node_id == _extract_gateway_node_id_from_topic(j.mqtt_topic)
         IN IF Truthy(gateway_node_id)
            THEN _record_gateway_connection(
                     EnsureNode(S, Val(gateway_node_id)),
                     special_node_id, Val(gateway_node_id), j, "direct")
            ELSE S

----------------------------------------------------------------------------
(* mqtt_handler.py: _track_special_node_packet *)

(* a weaker test than KeepNewCopy: ties replace too *)
KeepNewOrEqualCopy(new_signal_score, old_signal_score) ==
    new_signal_score >= old_signal_score

(* line 438: the new copy takes the place of the stored one *)
KeepNewCopy(new_signal_score, old_signal_score) ==
    new_signal_score > old_signal_score

(* a lookup that finds nothing *)
NeverSeenPacketId(tracking, packet_id) == FALSE

(* line 420: the packet id has been seen before for this node *)
SeenPacketId(tracking, packet_id) == packet_id \in DOMAIN tracking

(* The history variables observed_best and last_track record, for each     *)
(* call that carries a packet id, the best score among the copies so far   *)
(* and what the call did with the copy.                                    *)
Observe(S, node_id, packet_id, new_score, old_score, did) ==
    LET k == <<node_id, packet_id>>
        prev == IF k \in DOMAIN S.observed_best THEN S.observed_best[k] ELSE 0
    IN [S EXCEPT
          !.observed_best = DictSet(S.observed_best, k, Max(prev, new_score)),
          !.last_track = [node |-> node_id, id |-> packet_id, did |-> did,
                          new_score |-> new_score, old_score |-> old_score]]

(* lines 399-402 *)
EnsureArchive(S, node_id) ==
    [S EXCEPT
       !.special_node_packets =
           IF node_id \in DOMAIN @ THEN @ ELSE DictSet(@, node_id, <<>>),
       !._packet_id_tracking =
           IF node_id \in DOMAIN @ THEN @ ELSE DictSet(@, node_id, EmptyDict)]

(* lines 425-435 *)
OldSignalScore(packets, old_index) ==
    IF old_index < Len(packets)
    THEN _get_signal_quality_score(packets[old_index + 1])
    ELSE 0

(* lines 441-442 *)
ReplaceCopy(S, node_id, packet_type, j, old_index) ==
    IF old_index < Len(S.special_node_packets[node_id])
    THEN [S EXCEPT !.special_node_packets[node_id][old_index + 1] =
                       _build_packet_info(node_id, packet_type, j, S.now)]
    ELSE S

(* the length after the append recorded as stored_index *)
AppendCopyIndexAfter(S, node_id, packet_type, j, packet_id, new_signal_score) ==
    [S EXCEPT
       !.special_node_packets[node_id] =
           Append(@, _build_packet_info(node_id, packet_type, j, S.now)),
       !._packet_id_tracking[node_id] =
           DictSet(@, packet_id,
                   [stored_index |-> Len(S.special_node_packets[node_id]) + 1,
                    signal_score |-> new_signal_score])]

(* lines 449-452 *)
AppendCopy(S, node_id, packet_type, j, packet_id, new_signal_score) ==
    [S EXCEPT
       !.special_node_packets[node_id] =
           Append(@, _build_packet_info(node_id, packet_type, j, S.now)),
       !._packet_id_tracking[node_id] =
           DictSet(@, packet_id,
                   [stored_index |-> Len(S.special_node_packets[node_id]),
                    signal_score |-> new_signal_score])]

(* lines 420-438, for a packet id seen before *)
TrackSeen(S, node_id, packet_type, j, new_signal_score, old_index, old_signal_score) ==
    IF KeepNewCopy(new_signal_score, old_signal_score)
    THEN _extract_gateway_from_packet(
             Observe(ReplaceCopy(S, node_id, packet_type, j, old_index),
                     node_id, Val(j.id), new_signal_score, old_signal_score,
                     "replaced"),
             node_id, j)
    ELSE Observe(S, node_id, Val(j.id), new_signal_score, old_signal_score, "kept")

(* lines 416-456 *)
TrackWithId(S, node_id, packet_type, j, new_signal_score) ==
    IF SeenPacketId(S._packet_id_tracking[node_id], Val(j.id))
    THEN TrackSeen(S, node_id, packet_type, j, new_signal_score,
                   S._packet_id_tracking[node_id][Val(j.id)].stored_index,
                   OldSignalScore(
                       S.special_node_packets[node_id],
                       S._packet_id_tracking[node_id][Val(j.id)].stored_index))
    ELSE _extract_gateway_from_packet(
             Observe(AppendCopy(S, node_id, packet_type, j, Val(j.id),
                                new_signal_score),
                     node_id, Val(j.id), new_signal_score, 0, "new"),
             node_id, j)

_track_special_node_packet(S, node_id, packet_type, j) ==
    IF ~_is_special_node(S, node_id) THEN S
    ELSE IF ~Truthy(j.id) THEN EnsureArchive(S, node_id)
    ELSE TrackWithId(EnsureArchive(S, node_id), node_id, packet_type, j,
                     _get_signal_quality_score(j))

----------------------------------------------------------------------------
(* mqtt_handler.py: positions *)

(* Coordinates are fixed-point numbers in units of 1e-4 degree.  A packet  *)
(* carries latitude_i = degrees * 1e7, and the handler divides by 1e7.     *)
LatLonFromI(i) == IntTrunc(i, 1000)

(* the integer square root of n, known to be at most hi *)
ISqrt(n, hi) == CHOOSE r \in 0..hi : r * r <= n /\ (r + 1) * (r + 1) > n

Abs(x) == IF x < 0 THEN -x ELSE x

(* The great-circle distance in meters.  The model's positions lie within  *)
(* a few units of the equator, where the haversine formula reduces to the  *)
(* length of (dlat, dlon) times the radius: 11 m per unit of 1e-4 degree,  *)
(* rounded down.  The except branch (None) is not reachable with numbers.  *)
_haversine_m(lat1, lon1, lat2, lon2) ==
    LET dlat == Abs(lat2 - lat1)
        dlon == Abs(lon2 - lon1)
    IN ISqrt(121 * (dlat * dlat + dlon * dlon), 11 * (dlat + dlon))

RECURSIVE DropWhileOlder(_, _)
DropWhileOlder(dq, cutoff) ==
    IF dq # <<>> /\ Head(dq).ts < cutoff
    THEN DropWhileOlder(Tail(dq), cutoff) ELSE dq

(* a history that is never pruned *)
_keep_history(S, node_id, now_ts) == S

(* lines 723-733 *)
_prune_history(S, node_id, now_ts) ==
    IF node_id \notin DOMAIN S.special_history THEN S
    ELSE [S EXCEPT !.special_history[node_id] =
              DropWhileOlder(@, now_ts - SPECIAL_HISTORY_HOURS * HOUR)]

_initialize_special_node_home_position(S, node_id) ==
    IF S.nodes_data[node_id].latitude = None
    THEN LET special_node_config == S.SPECIAL_NODES[node_id]
             home_lat == special_node_config.home_lat
             home_lon == special_node_config.home_lon
         IN IF home_lat # None /\ home_lon # None
            THEN [S EXCEPT !.nodes_data[node_id].latitude = home_lat,
                           !.nodes_data[node_id].longitude = home_lon,
                           !.nodes_data[node_id].origin_lat = home_lat,
                           !.nodes_data[node_id].origin_lon = home_lon]
            ELSE S
    ELSE S

(* the edge maps left alone *)
_keep_gateway_names_in_connections(S, node_id, updated_name) == S

(* lines 901-918 *)
_update_gateway_names_in_connections(S, node_id, updated_name) ==
    IF updated_name = "" \/ updated_name = "Unknown" THEN S
    ELSE [S EXCEPT !.special_node_gateways =
              [sid \in DOMAIN @ |->
                  IF node_id \in DOMAIN @[sid]
                  THEN [@[sid] EXCEPT ![node_id].name = updated_name]
                  ELSE @[sid]]]

(* `if "rx_rssi" in json_data: nodes_data[node_id]["rx_rssi"] = ...`, and  *)
(* the same for rx_snr                                                     *)
StoreSignal(S, node_id, j) ==
    [S EXCEPT !.nodes_data[node_id].rx_rssi = IF j.rx_rssi # None THEN j.rx_rssi ELSE @,
              !.nodes_data[node_id].rx_snr = IF j.rx_snr # None THEN j.rx_snr ELSE @]

(* The first lines of every packet handler *)
MarkMessage(S) ==
    [S EXCEPT !.message_received = TRUE, !.last_message_time = S.now]

(* The archive step that opens on_position, on_nodeinfo, on_telemetry and  *)
(* on_mapreport for a special sender.                                      *)
ArchiveFirst(S, node_id, packet_type, j) ==
    IF node_id # 0 /\ _is_special_node(S, node_id)
    THEN _track_special_node_packet(
             [S EXCEPT !.special_node_last_packet =
                           DictSet(S.special_node_last_packet, node_id, S.now)],
             node_id, packet_type, j)
    ELSE S

----------------------------------------------------------------------------
(* mqtt_handler.py: on_position *)

(* lines 1068-1104: origin, distance, moved_far and the movement alert of  *)
(* a special node.  The alert is sent from inside the handler, before      *)
(* moved_far is stored.                                                    *)
MovedFar(dist, threshold) == dist >= threshold

(* lines 1079-1085 *)
SetOrigin(S, node_id, lat, lon) ==
    IF S.SPECIAL_NODES[node_id].home_lat # None
       /\ S.SPECIAL_NODES[node_id].home_lon # None
    THEN [S EXCEPT
            !.nodes_data[node_id].origin_lat = S.SPECIAL_NODES[node_id].home_lat,
            !.nodes_data[node_id].origin_lon = S.SPECIAL_NODES[node_id].home_lon]
    ELSE IF S.nodes_data[node_id].origin_lat = None
    THEN [S EXCEPT !.nodes_data[node_id].origin_lat = Some(lat),
                   !.nodes_data[node_id].origin_lon = Some(lon)]
    ELSE S

(* lines 1096-1100 *)
AlertIfMovedFar(S, node_id, moved_far, smtp_ok) ==
    IF moved_far /\ S.ALERT_ENABLED
    THEN send_movement_alert(S, node_id, smtp_ok)
    ELSE S

(* lines 1088-1098 with alerts.py:53-72: the handler is about to call     *)
(* _send_email for this position                                           *)
WillSendFromOrigin(S, node_id, lat, lon) ==
    /\ S.nodes_data[node_id].origin_lat # None
    /\ S.nodes_data[node_id].origin_lon # None
    /\ MovedFar(_haversine_m(Val(S.nodes_data[node_id].origin_lat),
                             Val(S.nodes_data[node_id].origin_lon), lat, lon),
                S.SPECIAL_MOVEMENT_THRESHOLD_METERS)
    /\ S.ALERT_ENABLED
    /\ ~InCooldown(_cleanup_alert_history(S), MovementKey(node_id))

WillSendMovementEmail(S, node_id, lat, lon) ==
    /\ _is_special_node(S, node_id)
    /\ WillSendFromOrigin(SetOrigin(S, node_id, lat, lon), node_id, lat, lon)

(* lines 1091-1102 *)
StoreDistance(S, node_id, dist, smtp_ok) ==
    [AlertIfMovedFar(
         [S EXCEPT !.nodes_data[node_id].distance_from_origin_m = Some(dist)],
         node_id, MovedFar(dist, S.SPECIAL_MOVEMENT_THRESHOLD_METERS), smtp_ok)
     EXCEPT !.nodes_data[node_id].moved_far =
                Some(MovedFar(dist, S.SPECIAL_MOVEMENT_THRESHOLD_METERS))]

(* lines 1088-1102 *)
MeasureFromOrigin(S, node_id, lat, lon, smtp_ok) ==
    IF S.nodes_data[node_id].origin_lat # None
       /\ S.nodes_data[node_id].origin_lon # None
    THEN StoreDistance(S, node_id,
                       _haversine_m(Val(S.nodes_data[node_id].origin_lat),
                                    Val(S.nodes_data[node_id].origin_lon),
                                    lat, lon),
                       smtp_ok)
    ELSE S

TrackMovement(S, node_id, lat, lon, smtp_ok) ==
    IF _is_special_node(S, node_id)
    THEN MeasureFromOrigin(SetOrigin(S, node_id, lat, lon),
                           node_id, lat, lon, smtp_ok)
    ELSE S

(* lines 1124-1134: a gateway's own position goes into every edge to it.   *)
(* The cache entry is one of these edge objects and needs no write of its  *)
(* own.                                                                    *)
UpdateGatewayPosition(S, node_id, lat, lon) ==
    IF node_id \in DOMAIN S.node_is_gateway /\ S.node_is_gateway[node_id]
    THEN [S EXCEPT !.special_node_gateways =
             [sid \in DOMAIN @ |->
                 IF node_id \in DOMAIN @[sid]
                 THEN [@[sid] EXCEPT ![node_id].lat = Some(lat),
                                     ![node_id].lon = Some(lon),
                                     ![node_id].last_seen = S.now]
                 ELSE @[sid]]]
    ELSE S

(* lines 1136-1189: the position history of a special node.  No entry of   *)
(* SPECIAL_NODES carries has_power_sensor, so the battery value is the     *)
(* node's battery percentage.                                              *)
(* lines 1142-1143 *)
EnsureTimestamps(S, node_id) ==
    [S EXCEPT !.special_node_position_timestamps =
                  IF node_id \in DOMAIN @ THEN @ ELSE DictSet(@, node_id, {})]

(* lines 1147-1165 and 1172-1189 *)
AppendHistory(S, node_id, lat, lon, j) ==
    _prune_history(
        [S EXCEPT !.special_history =
            DictSet(@, node_id,
                Append(IF node_id \in DOMAIN @ THEN @[node_id] ELSE <<>>,
                       [ts |-> S.now, lat |-> Some(lat), lon |-> Some(lon),
                        battery |-> S.nodes_data[node_id].battery,
                        rssi |-> j.rx_rssi, snr |-> j.rx_snr]))],
        node_id, S.now)

(* lines 1146-1189 *)
DeduplicateHistory(S, node_id, lat, lon, j) ==
    IF j.rxTime # None
       /\ Val(j.rxTime) \notin S.special_node_position_timestamps[node_id]
    THEN AppendHistory(
             [S EXCEPT !.special_node_position_timestamps[node_id] =
                           @ \cup {Val(j.rxTime)}],
             node_id, lat, lon, j)
    ELSE IF j.rxTime # None THEN S
    ELSE AppendHistory(S, node_id, lat, lon, j)

RecordHistory(S, node_id, lat, lon, j) ==
    IF _is_special_node(S, node_id)
    THEN DeduplicateHistory(EnsureTimestamps(S, node_id), node_id, lat, lon, j)
    ELSE S

(* lines 1111-1115 *)
(* line 1111 *)
StoreLatitude(S, node_id, lat) ==
    [S EXCEPT !.nodes_data[node_id].latitude = Some(lat)]

(* line 1112 *)
StoreLongitude(S, node_id, lon) ==
    [S EXCEPT !.nodes_data[node_id].longitude = Some(lon)]

(* line 1114 *)
StoreLastSeen(S, node_id) ==
    [S EXCEPT !.nodes_data[node_id].last_seen = Some(S.now)]

(* line 1115 *)
StoreLastPositionUpdate(S, node_id) ==
    [S EXCEPT !.nodes_data[node_id].last_position_update = Some(S.now)]

(* lines 1111-1115 *)
StorePosition(S, node_id, lat, lon) ==
    StoreLastPositionUpdate(
        StoreLastSeen(
            StoreLongitude(StoreLatitude(S, node_id, lat), node_id, lon),
            node_id),
        node_id)

(* lines 1117-1191 *)
FinishPosition(S, node_id, lat, lon, j) ==
    RecordHistory(
        UpdateGatewayPosition(StoreSignal(S, node_id, j), node_id, lat, lon),
        node_id, lat, lon, j)

(* lines 1056-1191 *)
(* lines 1056-1191 *)
ProcessPosition(S, node_id, lat, lon, j, smtp_ok) ==
    FinishPosition(
        StorePosition(
            TrackMovement(EnsureNode(S, node_id), node_id, lat, lon, smtp_ok),
            node_id, lat, lon),
        node_id, lat, lon, j)

HasPosition(j) ==
    j.from # 0 /\ j.payload.latitude_i # None /\ j.payload.longitude_i # None

PositionAfterArchive(S, j, smtp_ok) ==
    IF HasPosition(j)
    THEN ProcessPosition(S, j.from,
                         LatLonFromI(Val(j.payload.latitude_i)),
                         LatLonFromI(Val(j.payload.longitude_i)),
                         j, smtp_ok)
    ELSE S

(* lines 1030-1054 *)
BeginPosition(S, j) == ArchiveFirst(MarkMessage(S), j.from, "POSITION_APP", j)

on_position(S, j, smtp_ok) == PositionAfterArchive(BeginPosition(S, j), j, smtp_ok)

----------------------------------------------------------------------------
(* mqtt_handler.py: on_nodeinfo, on_telemetry, on_mapreport, on_neighborinfo *)

(* _extract_node_name_from_payload over the User payloads of the model,    *)
(* which carry a long_name or no string at all: the stripped long_name, or *)
(* None.                                                                   *)
_extract_node_name_from_payload(payload) ==
    IF payload.long_name # None /\ Val(payload.long_name) # ""
    THEN payload.long_name ELSE None

(* _store_node_names: extracted_name or payload.get("long_name") or "Unknown" *)
_store_node_names(S, node_id, payload, extracted_name) ==
    [S EXCEPT !.nodes_data[node_id].long_name =
        IF extracted_name # None THEN extracted_name
        ELSE IF payload.long_name # None /\ Val(payload.long_name) # ""
        THEN payload.long_name
        ELSE Some("Unknown")]

(* lines 990-991 *)
InitializeHomeIfSpecial(S, node_id) ==
    IF _is_special_node(S, node_id)
    THEN _initialize_special_node_home_position(S, node_id)
    ELSE S

(* lines 1019-1020: gateway_info_cache[node_id] is one of the edge objects *)
(* of special_node_gateways, and the write goes through to it              *)
UpdateCachedGatewayName(S, node_id, updated_name) ==
    IF /\ node_id \in DOMAIN S.node_is_gateway
       /\ S.node_is_gateway[node_id]
       /\ node_id \in DOMAIN S.gateway_info_cache
    THEN [S EXCEPT !.special_node_gateways[S.gateway_info_cache[node_id]]
                                          [node_id].name = updated_name]
    ELSE S

(* lines 1015-1020 *)
PropagateGatewayName(S, node_id) ==
    UpdateCachedGatewayName(
        _update_gateway_names_in_connections(
            S, node_id, Val(S.nodes_data[node_id].long_name)),
        node_id, Val(S.nodes_data[node_id].long_name))

(* lines 981-1020 *)
ProcessNodeinfo(S, node_id, j) ==
    PropagateGatewayName(
        StoreSignal(
            [_store_node_names(
                 InitializeHomeIfSpecial(EnsureNode(S, node_id), node_id),
                 node_id, j.payload, _extract_node_name_from_payload(j.payload))
             EXCEPT !.nodes_data[node_id].last_seen = Some(S.now)],
            node_id, j),
        node_id)

NodeinfoAfterArchive(S, j) ==
    IF j.from # 0 THEN ProcessNodeinfo(S, j.from, j) ELSE S

on_nodeinfo(S, j) ==
    NodeinfoAfterArchive(ArchiveFirst(MarkMessage(S), j.from, "NODEINFO_APP", j), j)

(* Voltages are in millivolts, the resolution the nodes report.           *)
(* `((voltage - 2.8) / (4.25 - 2.8)) * 100` is computed in doubles, where  *)
(* 4.25 - 2.8 is 1.4500000000000002.  On the millivolt grid the result is  *)
(* the exact quotient, except at the voltages below, where the exact       *)
(* quotient is an integer k and the double is the one just below k (at     *)
(* 3.264 V: 31.999999999999996), which int() truncates to k - 1.           *)
RoundedBelowInteger == {3264, 3409, 3554, 3699, 4018, 4047, 4076}

(* line 151 *)
LinearPercent(mv) ==
    IntTrunc((mv - 2800) * 100, 1450)
        - (IF mv \in RoundedBelowInteger THEN 1 ELSE 0)

(* lines 131-152 *)
_estimate_battery_from_voltage(voltage) ==
    IF voltage = None THEN None
    ELSE IF Val(voltage) >= 4250 THEN Some(100)
    ELSE IF Val(voltage) <= 2800 THEN Some(0)
    ELSE Some(Max(0, Min(100, LinearPercent(Val(voltage)))))

(* The branch of a node without power sensor, the only one SPECIAL_NODES   *)
(* entries select.  Returns <<battery, voltage>>.                          *)
_extract_battery_and_voltage_from_telemetry(node_id, payload) ==
    LET voltage == payload.voltage
        battery0 == IF payload.battery_level = None /\ voltage # None
                    THEN _estimate_battery_from_voltage(voltage)
                    ELSE payload.battery_level
        battery == IF battery0 = None THEN None
                   ELSE Some(Max(0, Min(100, Val(battery0))))
    IN <<battery, voltage>>

(* lines 467-470 *)
_ensure_history_struct(S, node_id) ==
    [S EXCEPT !.special_history =
        IF node_id \in DOMAIN @ THEN @ ELSE DictSet(@, node_id, <<>>)]

(* lines 171-189: the last history point is less than 2 seconds old.  Two  *)
(* seconds are less than one clock tick: the point bears the current time. *)
_find_recent_history_entry(S, node_id, current_ts) ==
    IF node_id \notin DOMAIN S.special_history THEN FALSE
    ELSE IF S.special_history[node_id] = <<>> THEN FALSE
    ELSE Abs(S.special_history[node_id][Len(S.special_history[node_id])].ts
             - current_ts) < 1

(* lines 191-212: the better rssi and snr, the latest battery value *)
BetterOf(new, old) ==
    IF new = None THEN old
    ELSE IF old = None THEN new
    ELSE IF Val(new) > Val(old) THEN new ELSE old

_update_history_entry(entry, rssi, snr, battery_value) ==
    [entry EXCEPT !.rssi = BetterOf(rssi, @),
                  !.snr = BetterOf(snr, @),
                  !.battery = IF battery_value # None THEN battery_value ELSE @]

(* lines 236-261 *)
AddOrUpdateEntry(S, node_id, lat, lon, j) ==
    IF _find_recent_history_entry(S, node_id, S.now)
    THEN [S EXCEPT !.special_history[node_id][Len(S.special_history[node_id])] =
              _update_history_entry(@, j.rx_rssi, j.rx_snr,
                                    S.nodes_data[node_id].battery)]
    ELSE [S EXCEPT !.special_history[node_id] =
              Append(@, [ts |-> S.now, lat |-> lat, lon |-> lon,
                         battery |-> S.nodes_data[node_id].battery,
                         rssi |-> j.rx_rssi, snr |-> j.rx_snr])]

(* a guard that lets every record pass *)
EveryPositionValid(lat, lon) == FALSE

(* line 230: `lat is None or lon is None or (lat == 0 and lon == 0)` *)
NoValidPosition(lat, lon) ==
    IF lat = None \/ lon = None THEN TRUE
    ELSE Val(lat) = 0 /\ Val(lon) = 0

(* lines 214-264.  The guard reads the keys "lat" and "lon" of the node    *)
(* record; a node record holds its position under "latitude" and           *)
(* "longitude", and .get of a key that is absent is None.                  *)
_add_telemetry_to_history(S, node_id, j) ==
    IF ~_is_special_node(S, node_id) THEN S
    ELSE IF NoValidPosition(RecGet(S.nodes_data[node_id], "lat", None),
                            RecGet(S.nodes_data[node_id], "lon", None))
    THEN S
    ELSE _prune_history(
             AddOrUpdateEntry(_ensure_history_struct(S, node_id), node_id,
                              RecGet(S.nodes_data[node_id], "lat", None),
                              RecGet(S.nodes_data[node_id], "lon", None), j),
             node_id, S.now)

_check_battery_alert(S, node_id, smtp_ok) ==
    IF ~_is_special_node(S, node_id) THEN S
    ELSE LET battery_level == S.nodes_data[node_id].battery
         IN IF battery_level # None /\ Val(battery_level) < LOW_BATTERY_THRESHOLD
            THEN send_battery_alert(S, node_id, smtp_ok)
            ELSE S

(* lines 1337-1342; bv is <<battery, voltage>> *)
StoreBattery(S, node_id, bv) ==
    [S EXCEPT !.nodes_data[node_id].last_seen = Some(S.now),
              !.nodes_data[node_id].battery = bv[1],
              !.nodes_data[node_id].voltage = bv[2]]

(* dict.update with the keys the packet carries *)
UpdatePresent(stored, battery_level, voltage) ==
    [battery_level |-> IF battery_level # None THEN battery_level
                       ELSE stored.battery_level,
     voltage |-> IF voltage # None THEN voltage ELSE stored.voltage]

(* lines 1267-1295, for the device metrics of the payload *)
_merge_telemetry_payload(S, node_id, payload) ==
    [S EXCEPT !.nodes_data[node_id].telemetry =
        Some(UpdatePresent(IF @ = None THEN [battery_level |-> None, voltage |-> None]
                           ELSE Val(@),
                           payload.battery_level, payload.voltage))]

(* lines 1328-1356 *)
ProcessTelemetry(S, node_id, j, smtp_ok) ==
    _check_battery_alert(
        _add_telemetry_to_history(
            StoreSignal(
                StoreBattery(_merge_telemetry_payload(EnsureNode(S, node_id),
                                                      node_id, j.payload),
                             node_id,
                    _extract_battery_and_voltage_from_telemetry(node_id, j.payload)),
                node_id, j),
            node_id, j),
        node_id, smtp_ok)

TelemetryAfterArchive(S, j, smtp_ok) ==
    IF j.from # 0 THEN ProcessTelemetry(S, j.from, j, smtp_ok) ELSE S

on_telemetry(S, j, smtp_ok) ==
    TelemetryAfterArchive(
        ArchiveFirst(MarkMessage(S), j.from, "TELEMETRY_APP", j), j, smtp_ok)

on_neighborinfo(S, j) == MarkMessage(S)

(* A JSON value that is a str or an int *)
JsonStr(s) == [is_int |-> FALSE, str |-> s, int |-> 0]
JsonInt(i) == [is_int |-> TRUE, str |-> "", int |-> i]

(* lines 1417-1427: the name of preset p is preset_names[p + 1] *)
preset_names ==
    << "LongFast", "LongSlow", "VeryLongSlow", "MediumSlow", "MediumFast",
       "ShortSlow", "ShortFast", "LongModerate", "ShortTurbo" >>

(* lines 1428-1431: `isinstance(modem_preset_value, int)` selects the      *)
(* table, anything else is stored as str(value)                            *)
PresetChannelName(modem_preset_value) ==
    IF modem_preset_value.is_int
    THEN IF modem_preset_value.int \in 0..8
         THEN preset_names[modem_preset_value.int + 1]
         ELSE "Preset"
    ELSE modem_preset_value.str

(* MessageToJson renders the enum modem_preset as its name, so the value   *)
(* is a str and the stored name is str(value); the preset whose number is  *)
(* 0 is the proto3 default and does not appear in the payload.             *)
(* lines 1404-1448 *)
ProcessMapreport(S, node_id, payload) ==
    [EnsureNode(S, node_id) EXCEPT
       !.nodes_data[node_id].last_seen = Some(S.now),
       !.nodes_data[node_id].modem_preset =
           IF payload.modem_preset # None
           THEN Some(PresetChannelName(Val(payload.modem_preset))) ELSE @,
       !.nodes_data[node_id].long_name =
           IF payload.long_name # None THEN payload.long_name ELSE @]

MapreportAfterArchive(S, j) ==
    IF j.from # 0 THEN ProcessMapreport(S, j.from, j.payload) ELSE S

on_mapreport(S, j) ==
    MapreportAfterArchive(
        ArchiveFirst(MarkMessage(S), j.from, "MAP_REPORT_APP", j), j)

----------------------------------------------------------------------------
(* mqtt_handler.py: _on_mqtt_message and _route_message_to_handler *)

(* An MQTT message is [topic, envelope].  The envelope is "garbage" (the   *)
(* ServiceEnvelope does not parse), "undecryptable" (the packet is         *)
(* encrypted and _decrypt_message_packet returns None) or "packet" with    *)
(* the MeshPacket mp.  The scalar fields of mp are proto3 fields without   *)
(* presence: 0 is the unset value and MessageToJson leaves it out.         *)
JsonOpt(v) == IF v = 0 THEN None ELSE Some(v)

(* _protobuf_to_json(mp) with the keys _on_mqtt_message adds.  Field names *)
(* are preserved (preserving_proto_field_name=True), so the receive time   *)
(* of the MeshPacket is under "rx_time" and the key "rxTime" is absent.    *)
JsonPacket(msg) ==
    LET mp == msg.envelope.mp
    IN [ from |-> mp.from,
         id |-> JsonOpt(mp.id),
         hop_start |-> JsonOpt(mp.hop_start),
         hop_limit |-> JsonOpt(mp.hop_limit),
         rx_rssi |-> JsonOpt(mp.rx_rssi),
         rx_snr |-> JsonOpt(mp.rx_snr),
         rx_time |-> JsonOpt(mp.rx_time),
         rxTime |-> None,
         mqtt_topic |-> msg.topic,
         payload |-> mp.payload ]

_route_message_to_handler(S, portnum, j, smtp_ok) ==
    CASE portnum = "POSITION_APP" -> on_position(S, j, smtp_ok)
      [] portnum = "NODEINFO_APP" -> on_nodeinfo(S, j)
      [] portnum = "TELEMETRY_APP" -> on_telemetry(S, j, smtp_ok)
      [] portnum = "MAP_REPORT_APP" -> on_mapreport(S, j)
      [] portnum = "NEIGHBORINFO_APP" -> on_neighborinfo(S, j)
      [] OTHER -> S

(* lines 1614-1688 up to the call of the handler *)
MarkPacket(S) ==
    [S EXCEPT !.last_packet_time = S.now,
              !.message_received = TRUE,
              !.packets_received = TRUE,
              !.last_message_time = S.now]

_on_mqtt_message(S, msg, smtp_ok) ==
    IF msg.envelope.kind # "packet"
    THEN [S EXCEPT !.last_packet_time = S.now]
    ELSE _route_message_to_handler(MarkPacket(S), msg.envelope.mp.portnum,
                                   JsonPacket(msg), smtp_ok)

_on_mqtt_disconnect(S) == [S EXCEPT !.last_packet_time = 0]

----------------------------------------------------------------------------
(* config.py: the [special_nodes] section *)

(* A coordinate string is "decimal" (float() accepts it; value in units of *)
(* 1e-4 degree), "degmin" (direction letter, whole degrees, minutes in     *)
(* thousandths) or "invalid".  parse_coordinate returns the value, or      *)
(* raises ValueError: None here.                                           *)
parse_coordinate(c) ==
    CASE c.fmt = "decimal" -> Some(c.value)
      [] c.fmt = "degmin" ->
            IF c.degrees < 0 \/ c.degrees > 180 THEN None
            ELSE IF c.minutes < 0 \/ c.minutes >= 60000 THEN None
            ELSE LET decimal == c.degrees * 10000 + (c.minutes * 10) \div 60
                 IN Some(IF c.dir \in {"S", "W"} THEN -decimal ELSE decimal)
      [] OTHER -> None

(* lines 214-247: one entry "node_id = label,home_lat,home_lon".  parts is *)
(* the value split at ','.  The two parse_coordinate calls share one try:  *)
(* when the second raises, home_lat is already assigned.                   *)
ParseSpecialNode(parts) ==
    LET label == IF Len(parts) >= 1 /\ parts[1] # "" THEN Some(parts[1]) ELSE None
        home_lat == IF Len(parts) >= 3 THEN parse_coordinate(parts[2]) ELSE None
        home_lon == IF Len(parts) >= 3 /\ home_lat # None
                    THEN parse_coordinate(parts[3]) ELSE None
    IN [label |-> label, home_lat |-> home_lat, home_lon |-> home_lon]

(* Loading config.py from the file: the module globals the model keeps. *)
LoadConfig(S) ==
    [S EXCEPT
       !.SPECIAL_NODES = [n \in DOMAIN S.tracker_config.special_nodes |->
                             ParseSpecialNode(S.tracker_config.special_nodes[n])],
       !.SPECIAL_MOVEMENT_THRESHOLD_METERS = S.tracker_config.movement_threshold,
       !.ALERT_ENABLED = S.tracker_config.alerts_enabled]

----------------------------------------------------------------------------
(* mqtt_handler.py: start-up and configuration changes *)

(* line 1877: `if node_id not in nodes_data` *)
AnyNode(nodes, node_id) == TRUE
NotYetInNodesData(nodes, node_id) == node_id \notin DOMAIN nodes

_initialize_special_nodes_at_startup(S) ==
    LET Seeded(node_id) ==
            LET special_info == S.SPECIAL_NODES[node_id]
            IN [EmptyNode EXCEPT
                  !.long_name = IF special_info.label # None
                                THEN special_info.label
                                ELSE Some("Node " \o ToString(node_id)),
                  !.latitude = special_info.home_lat,
                  !.longitude = special_info.home_lon,
                  !.origin_lat = special_info.home_lat,
                  !.origin_lon = special_info.home_lon,
                  !.last_seen = Some(0),
                  !.distance_from_origin_m = Some(0),
                  !.moved_far = Some(FALSE)]
        ids == DOMAIN S.SPECIAL_NODES
    IN [S EXCEPT !.nodes_data =
           [n \in DOMAIN S.nodes_data \cup ids |->
               IF n \in ids /\ NotYetInNodesData(S.nodes_data, n)
               THEN Seeded(n) ELSE S.nodes_data[n]]]

----------------------------------------------------------------------------
(* mqtt_handler.py: the MQTT client *)

(* A paho Client object.  session is "none" before connect(), "pending"    *)
(* while the CONNECT is unanswered or the loop is reconnecting, "up" once  *)
(* the broker accepted it.  subscribes counts the subscribe() calls and    *)
(* subscribed says whether the broker holds the subscription of the        *)
(* current session (clean_session=True: a new session starts without).     *)
NewClient ==
    [loop_running |-> FALSE, callbacks |-> FALSE, session |-> "none",
     subscribes |-> 0, subscribed |-> FALSE]

NewId(S) ==
    CHOOSE k \in 1..(Cardinality(DOMAIN S.clients) + 1) : k \notin DOMAIN S.clients

(* An object lives while the global `client` refers to it or its network   *)
(* loop thread runs; connect_mqtt keeps no local reference.                *)
Collect(S) ==
    [S EXCEPT !.clients =
        [k \in {c \in DOMAIN S.clients :
                   S.client = Some(c) \/ S.clients[c].loop_running} |-> @[k]]]

(* line 1781 *)
ClientExists(S) == S.client # None

(* lines 1789-1795 *)
CreateClient(S) ==
    Collect([S EXCEPT !.client = Some(NewId(S)),
                      !.clients = DictSet(@, NewId(S), NewClient)])

(* lines 1817-1818, 1832-1834 and 1851-1859: `client = None; return False`. *)
(* The outer handler stops the loop only `if client`, and it is entered    *)
(* here when `client` is None (an attribute access on None raises).        *)
SetupFailed(S) == Collect([S EXCEPT !.client = None])

(* lines 1805-1818 *)
DecodeKey(S, key_ok) == IF key_ok THEN S ELSE SetupFailed(S)

(* lines 1821-1825, on the global `client` *)
SetCallbacks(S) ==
    IF S.client = None THEN SetupFailed(S)
    ELSE [S EXCEPT !.clients[Val(S.client)].callbacks = TRUE]

(* lines 1828-1834: client.connect sends CONNECT, the answer is read by    *)
(* the network loop.  A connect on a connected client opens a new session. *)
ConnectClient(S, connect_ok) ==
    IF S.client = None \/ ~connect_ok THEN SetupFailed(S)
    ELSE [S EXCEPT !.clients[Val(S.client)].session = "pending",
                   !.clients[Val(S.client)].subscribed = FALSE]

(* line 1838: loop_start on a client whose loop runs starts no second one *)
LoopStart(S) ==
    IF S.client = None THEN SetupFailed(S)
    ELSE [S EXCEPT !.clients[Val(S.client)].loop_running = TRUE]

(* lines 1842-1843 *)
MarkConnectionAttempt(S) ==
    [S EXCEPT !.message_received = FALSE, !.last_message_time = S.now]

(* key_ok: the configured key is valid base64.  connect_ok: client.connect *)
(* does not raise.                                                         *)
connect_mqtt(S, key_ok, connect_ok) ==
    IF ClientExists(S) THEN S
    ELSE IF ~key_ok THEN DecodeKey(CreateClient(S), FALSE)
    ELSE IF ~connect_ok
    THEN ConnectClient(SetCallbacks(CreateClient(S)), FALSE)
    ELSE _initialize_special_nodes_at_startup(
             MarkConnectionAttempt(
                 LoopStart(ConnectClient(SetCallbacks(CreateClient(S)), TRUE))))

(* The CONNACK reason codes: 0 is success, 135 is "not authorized" *)
ReasonCodes == {0, 135}

AnyReasonCode(reason_code) == TRUE
ConnectAccepted(reason_code) == reason_code = 0

(* lines 1566-1595 *)
_on_mqtt_connect(S, client_obj, reason_code) ==
    IF ConnectAccepted(reason_code)
    THEN [S EXCEPT !.mqtt_was_connected = TRUE,
                   !.clients[client_obj].subscribes = @ + 1,
                   !.clients[client_obj].subscribed = TRUE,
                   !.message_received = TRUE,
                   !.last_message_time = S.now]
    ELSE S

(* lines 1903-1914 *)
disconnect_mqtt(S) ==
    IF S.client # None
    THEN Collect([S EXCEPT !.clients[Val(S.client)].loop_running = FALSE,
                           !.clients[Val(S.client)].session = "none",
                           !.clients[Val(S.client)].subscribed = FALSE,
                           !.client = None])
    ELSE S

(* [app_features] show_gateways = false; show_all_nodes is SHOW_ALL_NODES. *)
SHOW_GATEWAYS == FALSE
SHOW_ALL_NODES == FALSE

(* 3600 seconds.  The 300 seconds of the other threshold are less than one *)
(* clock tick and are taken as one tick.                                   *)
PACKET_STALENESS_THRESHOLD_SPECIAL_ONLY == 2
PACKET_STALENESS_THRESHOLD_ALL_NODES == 1

(* the short threshold in every mode *)
ShortThreshold(show_all_nodes, show_gateways) ==
    PACKET_STALENESS_THRESHOLD_ALL_NODES

(* lines 2014-2020 *)
StalenessThreshold(show_all_nodes, show_gateways) ==
    IF ~show_all_nodes /\ ~show_gateways
    THEN PACKET_STALENESS_THRESHOLD_SPECIAL_ONLY
    ELSE PACKET_STALENESS_THRESHOLD_ALL_NODES

(* lines 1997-2043 *)
is_connected(S, staleness_threshold) ==
    IF S.packets_received /\ S.last_packet_time > 0
    THEN IF S.now - S.last_packet_time < staleness_threshold
         THEN "receiving_packets"
         ELSE "stale_data"
    ELSE IF S.message_received THEN "connected_to_server"
    ELSE IF S.client # None THEN "connecting"
    ELSE "disconnected"

(* lines 1975-1990: one iteration of the loop over SPECIAL_NODES *)
RecalculateNode(S, node_id, home_lat, home_lon) ==
    IF node_id \in DOMAIN S.nodes_data /\ home_lat # None /\ home_lon # None
    THEN [S EXCEPT
            !.nodes_data[node_id].origin_lat = home_lat,
            !.nodes_data[node_id].origin_lon = home_lon,
            !.nodes_data[node_id].distance_from_origin_m =
                IF S.nodes_data[node_id].latitude # None
                   /\ S.nodes_data[node_id].longitude # None
                THEN Some(_haversine_m(Val(home_lat), Val(home_lon),
                                       Val(S.nodes_data[node_id].latitude),
                                       Val(S.nodes_data[node_id].longitude)))
                ELSE @,
            !.nodes_data[node_id].moved_far =
                IF S.nodes_data[node_id].latitude # None
                   /\ S.nodes_data[node_id].longitude # None
                THEN Some(MovedFar(
                         _haversine_m(Val(home_lat), Val(home_lon),
                                      Val(S.nodes_data[node_id].latitude),
                                      Val(S.nodes_data[node_id].longitude)),
                         S.SPECIAL_MOVEMENT_THRESHOLD_METERS))
                ELSE @]
    ELSE S

RECURSIVE RecalculateMovement(_, _)
RecalculateMovement(S, ids) ==
    IF ids = {} THEN S
    ELSE RecalculateMovement(
             RecalculateNode(S, CHOOSE n \in ids : TRUE,
                             S.SPECIAL_NODES[CHOOSE n \in ids : TRUE].home_lat,
                             S.SPECIAL_NODES[CHOOSE n \in ids : TRUE].home_lon),
             ids \ {CHOOSE n \in ids : TRUE})

(* importlib.reload(config) reads the file again *)
RecalculateAll(S) == RecalculateMovement(S, DOMAIN S.SPECIAL_NODES)

(* importlib.reload(config) reads the file again *)
update_special_nodes(S) == RecalculateAll(LoadConfig(S))

----------------------------------------------------------------------------
(* main.py: POST /api/config/movement-threshold *)

update_movement_threshold(S, threshold) ==
    IF threshold <= 0 THEN S
    ELSE [S EXCEPT !.SPECIAL_MOVEMENT_THRESHOLD_METERS = threshold]

----------------------------------------------------------------------------
(* main.py: starting the MQTT background thread *)

(* The callers of start_mqtt_on_startup: 0 is the start-up path            *)
(* (init_background_services, before the server accepts requests), the     *)
(* others are request threads running the before_request hook.             *)
Callers == {0} \cup RequestThreads

(* Thread.is_alive(): started and not yet returned *)
IsAlive(S, t) == S.background_threads[t].pc \notin {"unstarted", "exited"}

(* line 302: the condition of the before_request hook *)
HookCalls(S) ==
    IF S.main_mqtt_thread = None THEN TRUE
    ELSE ~IsAlive(S, Val(S.main_mqtt_thread))

(* lines 283-285 *)
ReapDeadThread(S) ==
    IF S.main_mqtt_thread # None /\ ~IsAlive(S, Val(S.main_mqtt_thread))
    THEN [S EXCEPT !.main_mqtt_thread = None]
    ELSE S

(* line 288: threading.Thread(...) assigned to the global *)
CreateThread(S) ==
    [S EXCEPT !.background_threads = Append(@, [pc |-> "unstarted"]),
              !.main_mqtt_thread = Some(Len(S.background_threads) + 1)]

(* line 289: mqtt_thread.start() on the global.  It raises when the global *)
(* is None by now, or names a thread that was started already.             *)
StartThread(S) ==
    IF S.main_mqtt_thread = None THEN S
    ELSE IF S.background_threads[Val(S.main_mqtt_thread)].pc # "unstarted" THEN S
    ELSE [S EXCEPT !.background_threads[Val(S.main_mqtt_thread)].pc = "check"]

----------------------------------------------------------------------------
(* The state record and its application *)

vars ==
    <<
      now, tracker_config, SPECIAL_NODES,
      SPECIAL_MOVEMENT_THRESHOLD_METERS, ALERT_ENABLED, last_alert_sent,
      emitted, last_call, nodes_data, special_node_packets,
      _packet_id_tracking, special_node_gateways,
      special_node_gateways_order, node_is_gateway,
      gateway_reliability_cache, all_gateway_node_ids, gateway_info_cache,
      special_history, special_node_position_timestamps,
      special_node_last_packet, client, message_received, packets_received,
      last_message_time, last_packet_time, mqtt_was_connected, clients,
      last_connack, last_packet_arrival, main_mqtt_thread, background_threads, request_threads,
      observed_best, last_track, last_msg, position_log,
      rate_limiter, limit_threads, decisions, caught, app_features, status_reply,
      mqtt_thread, http_thread, committed
    >>

St ==
    [ now |-> now,
      tracker_config |-> tracker_config,
      SPECIAL_NODES |-> SPECIAL_NODES,
      SPECIAL_MOVEMENT_THRESHOLD_METERS |-> SPECIAL_MOVEMENT_THRESHOLD_METERS,
      ALERT_ENABLED |-> ALERT_ENABLED,
      last_alert_sent |-> last_alert_sent,
      emitted |-> emitted,
      last_call |-> last_call,
      nodes_data |-> nodes_data,
      special_node_packets |-> special_node_packets,
      _packet_id_tracking |-> _packet_id_tracking,
      special_node_gateways |-> special_node_gateways,
      special_node_gateways_order |-> special_node_gateways_order,
      node_is_gateway |-> node_is_gateway,
      gateway_reliability_cache |-> gateway_reliability_cache,
      all_gateway_node_ids |-> all_gateway_node_ids,
      gateway_info_cache |-> gateway_info_cache,
      special_history |-> special_history,
      special_node_position_timestamps |-> special_node_position_timestamps,
      special_node_last_packet |-> special_node_last_packet,
      client |-> client,
      message_received |-> message_received,
      packets_received |-> packets_received,
      last_message_time |-> last_message_time,
      last_packet_time |-> last_packet_time,
      mqtt_was_connected |-> mqtt_was_connected,
      clients |-> clients,
      last_connack |-> last_connack,
      last_packet_arrival |-> last_packet_arrival,
      main_mqtt_thread |-> main_mqtt_thread,
      background_threads |-> background_threads,
      request_threads |-> request_threads,
      observed_best |-> observed_best,
      last_track |-> last_track,
      last_msg |-> last_msg,
      position_log |-> position_log,
      rate_limiter |-> rate_limiter,
      limit_threads |-> limit_threads,
      decisions |-> decisions,
      caught |-> caught,
      app_features |-> app_features,
      status_reply |-> status_reply,
      mqtt_thread |-> mqtt_thread,
      http_thread |-> http_thread,
      committed |-> committed ]

Apply(S) ==
    /\ now' = S.now
    /\ tracker_config' = S.tracker_config
    /\ SPECIAL_NODES' = S.SPECIAL_NODES
    /\ SPECIAL_MOVEMENT_THRESHOLD_METERS' = S.SPECIAL_MOVEMENT_THRESHOLD_METERS
    /\ ALERT_ENABLED' = S.ALERT_ENABLED
    /\ last_alert_sent' = S.last_alert_sent
    /\ emitted' = S.emitted
    /\ last_call' = S.last_call
    /\ nodes_data' = S.nodes_data
    /\ special_node_packets' = S.special_node_packets
    /\ _packet_id_tracking' = S._packet_id_tracking
    /\ special_node_gateways' = S.special_node_gateways
    /\ special_node_gateways_order' = S.special_node_gateways_order
    /\ node_is_gateway' = S.node_is_gateway
    /\ gateway_reliability_cache' = S.gateway_reliability_cache
    /\ all_gateway_node_ids' = S.all_gateway_node_ids
    /\ gateway_info_cache' = S.gateway_info_cache
    /\ special_history' = S.special_history
    /\ special_node_position_timestamps' = S.special_node_position_timestamps
    /\ special_node_last_packet' = S.special_node_last_packet
    /\ client' = S.client
    /\ message_received' = S.message_received
    /\ packets_received' = S.packets_received
    /\ last_message_time' = S.last_message_time
    /\ last_packet_time' = S.last_packet_time
    /\ mqtt_was_connected' = S.mqtt_was_connected
    /\ clients' = S.clients
    /\ last_connack' = S.last_connack
    /\ last_packet_arrival' = S.last_packet_arrival
    /\ main_mqtt_thread' = S.main_mqtt_thread
    /\ background_threads' = S.background_threads
    /\ request_threads' = S.request_threads
    /\ observed_best' = S.observed_best
    /\ last_track' = S.last_track
    /\ last_msg' = S.last_msg
    /\ position_log' = S.position_log
    /\ rate_limiter' = S.rate_limiter
    /\ limit_threads' = S.limit_threads
    /\ decisions' = S.decisions
    /\ caught' = S.caught
    /\ app_features' = S.app_features
    /\ status_reply' = S.status_reply
    /\ mqtt_thread' = S.mqtt_thread
    /\ http_thread' = S.http_thread
    /\ committed' = S.committed

NoCall == [key |-> MovementKey(0), outcome |-> "none", before |-> None]
NoTrack == [node |-> 0, id |-> 0, did |-> "none", new_score |-> 0, old_score |-> 0]

(* paho's loop thread waits for a message; no request is being served *)
LoopIdle == [pc |-> "idle", msg |-> None]
NoNodeInfo ==
    [id |-> 0, last_seen |-> None, lat |-> None, lon |-> None,
     last_position_update |-> None]
NoRequest ==
    [pc |-> "idle", size |-> 0, index |-> 0, node_info |-> NoNodeInfo,
     result |-> <<>>, error |-> FALSE]

(* a request thread that is not inside is_allowed *)
LimitThreads == 1..2
NoLimitCall == [pc |-> "idle", client_ip |-> "", now |-> 0]

(* The state once src.config and src.mqtt_handler are imported with the    *)
(* file cfg in place: every global at its module-level initial value.      *)
InitFeatures(cfg, features) ==
    /\ now = 1          \* time.time() is positive
    /\ tracker_config = cfg
    /\ SPECIAL_NODES = [n \in DOMAIN cfg.special_nodes |->
                           ParseSpecialNode(cfg.special_nodes[n])]
    /\ SPECIAL_MOVEMENT_THRESHOLD_METERS = cfg.movement_threshold
    /\ ALERT_ENABLED = cfg.alerts_enabled
    /\ last_alert_sent = EmptyDict
    /\ emitted = <<>>
    /\ last_call = NoCall
    /\ nodes_data = EmptyDict
    /\ special_node_packets = EmptyDict
    /\ _packet_id_tracking = EmptyDict
    /\ special_node_gateways = EmptyDict
    /\ special_node_gateways_order = <<>>
    /\ node_is_gateway = EmptyDict
    /\ gateway_reliability_cache = EmptyDict
    /\ all_gateway_node_ids = {}
    /\ gateway_info_cache = EmptyDict
    /\ special_history = EmptyDict
    /\ special_node_position_timestamps = EmptyDict
    /\ special_node_last_packet = EmptyDict
    /\ client = None
    /\ message_received = FALSE
    /\ packets_received = FALSE
    /\ last_message_time = 0
    /\ last_packet_time = 0
    /\ mqtt_was_connected = FALSE
    /\ clients = EmptyDict
    /\ last_connack = None
    /\ last_packet_arrival = None
    /\ main_mqtt_thread = None
    /\ background_threads = <<>>
    /\ request_threads = [h \in Callers |-> IF h = 0 THEN "reap" ELSE "idle"]
    /\ observed_best = EmptyDict
    /\ last_track = NoTrack
    /\ last_msg = None
    /\ position_log = <<>>
    /\ rate_limiter = [request_history |-> EmptyDict]
    /\ limit_threads = [t \in LimitThreads |-> NoLimitCall]
    /\ decisions = <<>>
    /\ caught = 0
    /\ app_features = features
    /\ status_reply = None
    /\ mqtt_thread = LoopIdle
    /\ http_thread = NoRequest
    /\ committed = EmptyDict

(* config.py lines 179-180 with the [app_features] section of the model *)
InitWith(cfg) ==
    InitFeatures(cfg, [show_all_nodes |-> SHOW_ALL_NODES,
                       show_gateways |-> SHOW_GATEWAYS])

(* tracker.config files.  Entries of [special_nodes] are given as the      *)
(* comma-separated parts of their value.                                   *)
Decimal(v) == [fmt |-> "decimal", value |-> v]
DegMin(dir, degrees, minutes) ==
    [fmt |-> "degmin", dir |-> dir, degrees |-> degrees, minutes |-> minutes]
Invalid == [fmt |-> "invalid"]

ConfigFile(special_nodes, alerts_enabled) ==
    [special_nodes |-> special_nodes,
     movement_threshold |-> 50,
     alerts_enabled |-> alerts_enabled]

NoHomeNodes == [n \in SpecialIds |-> <<"Buoy">>]

(* A step that is not the delivery of an MQTT message, and one that is *)
Step(S) == Apply([S EXCEPT !.last_msg = None, !.last_connack = None])
Delivered(S, msg, smtp_ok) ==
    [_on_mqtt_message(S, msg, smtp_ok) EXCEPT
       !.last_msg = Some(msg),
       !.last_connack = None,
       !.last_packet_arrival =
           IF msg.envelope.kind = "packet" THEN Some(S.now) ELSE @]

Deliver(msg, smtp_ok) == Apply(Delivered(St, msg, smtp_ok))

(* on_message is installed by connect_mqtt: messages arrive once connected *)
Connected == client # None

(* The tracker starts: connect_mqtt installs the callback and starts the   *)
(* network loop                                                            *)
Connect ==
    /\ client = None
    /\ \E key_ok, connect_ok \in BOOLEAN : Step(connect_mqtt(St, key_ok, connect_ok))

Tick ==
    /\ now < MaxTime
    /\ Step([St EXCEPT !.now = now + 1])

----------------------------------------------------------------------------
(* SpecAlerts: the alert dispatcher under any sequence of calls *)

InitAlerts == \E enabled \in BOOLEAN : InitWith(ConfigFile(NoHomeNodes, enabled))

CallSendMovementAlert ==
    \E node_id \in SpecialIds, smtp_ok \in BOOLEAN :
        /\ Len(emitted) < MaxAlerts
        /\ Step(send_movement_alert(St, node_id, smtp_ok))

CallSendBatteryAlert ==
    \E node_id \in SpecialIds, smtp_ok \in BOOLEAN :
        /\ Len(emitted) < MaxAlerts
        /\ Step(send_battery_alert(St, node_id, smtp_ok))

NextAlerts == Tick \/ CallSendMovementAlert \/ CallSendBatteryAlert

SpecAlerts == InitAlerts /\ [][NextAlerts]_vars

----------------------------------------------------------------------------
(* SpecPackets: packets of a special node arrive through two gateways, as  *)
(* direct and relayed copies, and the gateways send packets of their own   *)

Segment(bang, hex) == [bang |-> bang, hex |-> hex]
TopicVia(gateway_node_id) ==
    << Segment(FALSE, None), Segment(FALSE, None),
       Segment(TRUE, Some(gateway_node_id)) >>

MeshPacket(from, id, hops, rx_rssi, rx_snr, portnum, payload) ==
    [ from |-> from, id |-> id, hop_start |-> hops[1], hop_limit |-> hops[2],
      rx_rssi |-> rx_rssi, rx_snr |-> rx_snr, rx_time |-> 0,
      portnum |-> portnum, payload |-> payload ]

(* the same message with the receive time the gateway stamped on it *)
WithRxTime(msg, rx_time) == [msg EXCEPT !.envelope.mp.rx_time = rx_time]

Msg(topic, mp) == [topic |-> topic, envelope |-> [kind |-> "packet", mp |-> mp]]

PositionPayload(lat_i, lon_i) == [latitude_i |-> lat_i, longitude_i |-> lon_i]
TelemetryPayload(battery_level, voltage) ==
    [battery_level |-> battery_level, voltage |-> voltage]
UserPayload(long_name) == [long_name |-> long_name]

PayloadOf(portnum) ==
    CASE portnum = "POSITION_APP" -> PositionPayload(Some(10000), Some(10000))
      [] portnum = "TELEMETRY_APP" -> TelemetryPayload(Some(80), None)
      [] portnum = "NODEINFO_APP" -> UserPayload(Some("Buoy"))

GatewayIds == {3, 4}

(* Copies of packet 7 of node 1: direct, relayed, or without hop_start;   *)
(* strong or weak; as node info or telemetry; through either gateway.     *)
(* Packet 8 is a later packet heard weakly and directly by gateway 4.     *)
SpecialNodeMsgs ==
    { Msg(TopicVia(g), MeshPacket(1, 7, hops, rssi, 0, portnum, PayloadOf(portnum))) :
        g \in GatewayIds,
        hops \in {<<3, 3>>, <<3, 2>>, <<0, 3>>}, rssi \in {-90, -60},
        portnum \in {"NODEINFO_APP", "TELEMETRY_APP"} }
    \cup
    { Msg(TopicVia(4), MeshPacket(1, 8, <<3, 3>>, -90, 0, "TELEMETRY_APP",
                                  PayloadOf("TELEMETRY_APP"))) }

(* Gateway 3 reports its own name and position; the reports are relayed.  *)
GatewayNodeMsgs ==
    { Msg(TopicVia(4), MeshPacket(3, 9, <<3, 1>>, 0, 0, "NODEINFO_APP",
                                  UserPayload(Some("GW3")))),
      Msg(TopicVia(4), MeshPacket(3, 9, <<3, 1>>, 0, 0, "POSITION_APP",
                                  PositionPayload(Some(12000), Some(10000)))) }

InitPackets == InitWith(ConfigFile(NoHomeNodes, FALSE))

ReceiveFromSpecialNode ==
    \E msg \in SpecialNodeMsgs : Connected /\ Deliver(msg, TRUE)

ReceiveFromGateway ==
    \E msg \in GatewayNodeMsgs : Connected /\ Deliver(msg, TRUE)

NextPackets == Connect \/ ReceiveFromSpecialNode \/ ReceiveFromGateway

SpecPackets == InitPackets /\ [][NextPackets]_vars

----------------------------------------------------------------------------
(* SpecNodes: the tracker starts from a configuration file, position and   *)
(* node info packets arrive, and the movement threshold is changed through *)
(* the HTTP endpoint                                                       *)

MaxHistory == 2


(* the value of an entry "1 = ..." of [special_nodes], split at ',' *)
HomeEntries ==
    { <<"Buoy">>,
      <<"Buoy", Decimal(10), Decimal(10)>>,
      <<"Buoy", DegMin("N", 0, 60), DegMin("E", 0, 60)>>,
      <<"Buoy", Invalid, Decimal(10)>>,
      <<"Buoy", Decimal(10), Invalid>> }

HomeConfig(entry, alerts_enabled) ==
    ConfigFile([n \in SpecialIds |-> IF n = 1 THEN entry ELSE <<"Buoy">>],
               alerts_enabled)

(* A relayed packet without packet id (the archive skips it) *)
PositionMsg(from, lat_i, lon_i) ==
    Msg(TopicVia(4),
        MeshPacket(from, 0, <<3, 2>>, -90, 0, "POSITION_APP",
                   PositionPayload(Some(lat_i), Some(lon_i))))

(* Node 1 reports from 0 m, 33 m and 110 m north of (10, 10); node 5 is   *)
(* an ordinary node.                                                       *)
NodeMsgs ==
    { PositionMsg(1, lat_i, 10000) : lat_i \in {10000, 13000, 20000} }
    \cup
    { PositionMsg(5, 12000, 12000),
      Msg(TopicVia(4), MeshPacket(1, 0, <<3, 2>>, -90, 0, "NODEINFO_APP",
                                  UserPayload(Some("Buoy")))) }

(* position history is pruned by age only; the model stops at MaxHistory   *)
HistoryBudget ==
    \A n \in DOMAIN special_history : Len(special_history[n]) < MaxHistory

InitNodes == \E entry \in HomeEntries : InitWith(HomeConfig(entry, FALSE))

ReceiveReport ==
    \E msg \in NodeMsgs : Connected /\ HistoryBudget /\ Deliver(msg, TRUE)

PostMovementThreshold ==
    \E threshold \in {0, 25, 150} :
        /\ http_thread.pc = "idle"
        /\ Step(update_movement_threshold(St, threshold))

NextNodes == Connect \/ ReceiveReport \/ PostMovementThreshold

SpecNodes == InitNodes /\ [][NextNodes]_vars

----------------------------------------------------------------------------
(* SpecThreads: paho's network loop thread runs on_position statement by   *)
(* statement while a Flask request thread runs get_nodes.  No lock guards  *)
(* nodes_data; the interpreter switches threads between statements.  The   *)
(* statements of on_position before line 1111 and after line 1115 are      *)
(* taken in groups.  Requests are served once the tracker has connected.  *)

(* The keys of nodes_data in insertion order: the pre-seeded special nodes *)
(* in the order of the file, then node 5, the only other sender.           *)
RECURSIVE Ascending(_)
Ascending(set) ==
    IF set = {} THEN <<>>
    ELSE LET m == CHOOSE x \in set : \A y \in set : x <= y
         IN <<m>> \o Ascending(set \ {m})

InsertionOrder(S) ==
    Ascending(DOMAIN S.nodes_data \cap DOMAIN S.SPECIAL_NODES)
    \o Ascending(DOMAIN S.nodes_data \ DOMAIN S.SPECIAL_NODES)

(* what get_nodes reports of a node's position *)
PositionOf(data) ==
    [lat |-> data.latitude, lon |-> data.longitude,
     last_position_update |-> data.last_position_update]

(* the handler of a position packet has returned *)
Commit(S, node_id) ==
    [S EXCEPT !.committed =
        DictSet(@, node_id,
                (IF node_id \in DOMAIN @ THEN @[node_id] ELSE {})
                \cup {PositionOf(S.nodes_data[node_id])})]

ThreadMsgs ==
    { PositionMsg(1, 10000, 10000), PositionMsg(1, 20000, 12000),
      PositionMsg(5, 12000, 12000) }

InitThreads ==
    InitWith(HomeConfig(<<"Buoy", Decimal(10), Decimal(10)>>, TRUE))

At(pc) == mqtt_thread.pc = pc
Goto(S, pc) == [S EXCEPT !.mqtt_thread.pc = pc]
CurrentPacket == JsonPacket(Val(mqtt_thread.msg))
CurrentLat == LatLonFromI(Val(CurrentPacket.payload.latitude_i))
CurrentLon == LatLonFromI(Val(CurrentPacket.payload.longitude_i))

(* _on_mqtt_message is called on the loop thread; on_position lines        *)
(* 1030-1054                                                               *)
LoopReceive ==
    \E msg \in ThreadMsgs :
        /\ Connected
        /\ At("idle")
        /\ HistoryBudget
        /\ Step([BeginPosition(MarkPacket(St), JsonPacket(msg))
                 EXCEPT !.mqtt_thread = [pc |-> "ensure", msg |-> Some(msg)]])

(* lines 1056-1058 *)
LoopEnsureNode ==
    /\ At("ensure")
    /\ Step(Goto(EnsureNode(St, CurrentPacket.from), "movement"))

(* lines 1068-1104, up to the call of smtplib when an e-mail is due *)
LoopTrackMovement ==
    /\ At("movement")
    /\ IF WillSendMovementEmail(St, CurrentPacket.from, CurrentLat, CurrentLon)
       THEN Step(Goto(St, "smtp"))
       ELSE Step(Goto(TrackMovement(St, CurrentPacket.from, CurrentLat,
                                    CurrentLon, TRUE),
                      "latitude"))

(* alerts.py:192-214: the SMTP conversation ends, well or not *)
LoopSmtpReturns ==
    /\ At("smtp")
    /\ \E smtp_ok \in BOOLEAN :
           Step(Goto(TrackMovement(St, CurrentPacket.from, CurrentLat,
                                   CurrentLon, smtp_ok),
                     "latitude"))

LoopStoreLatitude ==
    /\ At("latitude")
    /\ Step(Goto(StoreLatitude(St, CurrentPacket.from, CurrentLat), "longitude"))

LoopStoreLongitude ==
    /\ At("longitude")
    /\ Step(Goto(StoreLongitude(St, CurrentPacket.from, CurrentLon), "last_seen"))

LoopStoreLastSeen ==
    /\ At("last_seen")
    /\ Step(Goto(StoreLastSeen(St, CurrentPacket.from), "last_position_update"))

LoopStoreLastPositionUpdate ==
    /\ At("last_position_update")
    /\ Step(Goto(StoreLastPositionUpdate(St, CurrentPacket.from), "finish"))

(* lines 1117-1191, and the return to paho's loop *)
LoopFinishPosition ==
    /\ At("finish")
    /\ Step([Commit(FinishPosition(St, CurrentPacket.from, CurrentLat,
                                   CurrentLon, CurrentPacket),
                    CurrentPacket.from)
             EXCEPT !.mqtt_thread = LoopIdle])

(* get_nodes, lines 2236-2238: the result list and the dict iterator, which *)
(* remembers the size of nodes_data                                        *)
HttpGetNodes ==
    /\ Connected
    /\ http_thread.pc \in {"idle", "done"}
    /\ Step([St EXCEPT !.http_thread =
                [NoRequest EXCEPT !.pc = "next",
                                  !.size = Cardinality(DOMAIN nodes_data)]])

(* a filter that lets every node pass *)
ReportsEveryNode(S, node_id) == TRUE

(* lines 2240-2246: special nodes and gateways are reported *)
IsReported(S, node_id) ==
    \/ SHOW_ALL_NODES
    \/ node_id \in DOMAIN S.SPECIAL_NODES
    \/ (node_id \in DOMAIN S.node_is_gateway /\ S.node_is_gateway[node_id])
    \/ node_id \in S.all_gateway_node_ids

(* _build_node_info_from_data, the keys that identify the node *)
_build_node_info_from_data(S, node_id) ==
    [id |-> node_id,
     is_special |-> node_id \in DOMAIN S.SPECIAL_NODES,
     is_gateway |-> \/ (node_id \in DOMAIN S.node_is_gateway
                           /\ S.node_is_gateway[node_id])
                    \/ node_id \in S.all_gateway_node_ids,
     lat |-> S.nodes_data[node_id].latitude,
     lon |-> S.nodes_data[node_id].longitude]

(* lines 2186-2231: None when the gateway has no entry in the info cache;  *)
(* the entry is the edge of special_node_gateways the cache aliases        *)
_build_gateway_only_node(S, gateway_id) ==
    IF gateway_id \notin DOMAIN S.gateway_info_cache THEN None
    ELSE Some([id |-> gateway_id, is_special |-> FALSE, is_gateway |-> TRUE,
               lat |-> S.special_node_gateways[S.gateway_info_cache[gateway_id]]
                                              [gateway_id].lat,
               lon |-> S.special_node_gateways[S.gateway_info_cache[gateway_id]]
                                              [gateway_id].lon])

(* lines 2239-2251: the loop over nodes_data.  The properties stated of    *)
(* the result do not depend on its order; keys are taken in ascending      *)
(* order.                                                                  *)
NodesFromData(S) ==
    LET reported == SelectSeq(Ascending(DOMAIN S.nodes_data),
                              LAMBDA node_id : IsReported(S, node_id))
    IN [i \in 1..Len(reported) |-> _build_node_info_from_data(S, reported[i])]

(* lines 2254-2259: the gateways that are not in the result yet *)
GatewayOnlyNodes(S, result_ids) ==
    LET missing == SelectSeq(Ascending(S.all_gateway_node_ids \ result_ids),
                             LAMBDA g : _build_gateway_only_node(S, g) # None)
    IN [i \in 1..Len(missing) |-> Val(_build_gateway_only_node(S, missing[i]))]

AddGatewayOnlyNodes(S, result) ==
    result \o GatewayOnlyNodes(S, {result[i].id : i \in 1..Len(result)})

(* get_nodes run without interruption *)
get_nodes(S) == AddGatewayOnlyNodes(S, NodesFromData(S))

(* The outcome of a call: the value returned, or an exception raised *)
Returns(value) == [raised |-> FALSE, value |-> value]
Raises == [raised |-> TRUE, value |-> <<>>]

(* config.py binds no module attribute special_nodes_settings: the name is *)
(* a section of the file, handed to the parser as a string.                *)
ConfigHasSpecialNodesSettings == FALSE

(* special_nodes_settings.get('data_limit_time', 1.0), in hours *)
DATA_LIMIT_TIME == 1 * HOUR

(* lines 2306-2313: the first point of a window stays until a point with a *)
(* larger ts comes                                                         *)
RECURSIVE FillTimeBuckets(_, _, _)
FillTimeBuckets(points, time_window, time_buckets) ==
    IF points = <<>> THEN time_buckets
    ELSE FillTimeBuckets(
             Tail(points), time_window,
             IF Head(points).ts \div time_window \notin DOMAIN time_buckets
             THEN DictSet(time_buckets, Head(points).ts \div time_window, Head(points))
             ELSE IF Head(points).ts
                        > time_buckets[Head(points).ts \div time_window].ts
             THEN DictSet(time_buckets, Head(points).ts \div time_window, Head(points))
             ELSE time_buckets)

(* line 2316: sorted by ts, which is the order of the windows *)
SortedBuckets(time_buckets) ==
    [i \in 1..Cardinality(DOMAIN time_buckets) |->
        time_buckets[Ascending(DOMAIN time_buckets)[i]]]

(* lines 2294-2317: the attribute lookup at line 2303 raises *)
_deduplicate_by_hour(points) ==
    IF points = <<>> THEN Returns(<<>>)
    ELSE IF ~ConfigHasSpecialNodesSettings THEN Raises
    ELSE Returns(SortedBuckets(FillTimeBuckets(points, DATA_LIMIT_TIME, EmptyDict)))

(* line 2284: `hours or SPECIAL_HISTORY_HOURS` *)
HoursOrDefault(hours) == IF Truthy(hours) THEN Val(hours) ELSE SPECIAL_HISTORY_HOURS

(* lines 2285-2289 *)
FilterByCutoff(dq, cutoff) == SelectSeq(dq, LAMBDA e : e.ts >= cutoff)

(* lines 2264-2292 *)
get_special_history(S, node_id, hours) ==
    _deduplicate_by_hour(
        FilterByCutoff(
            IF node_id \in DOMAIN S.special_history
            THEN S.special_history[node_id] ELSE <<>>,
            S.now - HoursOrDefault(hours) * HOUR))

(* line 2238, one step of the for loop: the iterator raises RuntimeError   *)
(* when the dict has changed size, ends after the last key, or yields the  *)
(* next key; main.py:392 turns the error into a failed request             *)
IteratorNext(S, h) ==
    IF Cardinality(DOMAIN S.nodes_data) # h.size
    THEN [h EXCEPT !.pc = "done", !.error = TRUE]
    ELSE IF h.index = h.size
    THEN [h EXCEPT !.pc = "done"]
    ELSE IF IsReported(S, InsertionOrder(S)[h.index + 1])
    THEN [h EXCEPT !.pc = "last_seen", !.index = @ + 1,
                   !.node_info = [NoNodeInfo EXCEPT
                                    !.id = InsertionOrder(S)[h.index + 1]]]
    ELSE [h EXCEPT !.index = @ + 1]

HttpNext ==
    /\ http_thread.pc = "next"
    /\ Step([St EXCEPT !.http_thread = IteratorNext(St, http_thread)])

(* _build_node_info_from_data, line 2104 *)
HttpReadLastSeen ==
    /\ http_thread.pc = "last_seen"
    /\ Step([St EXCEPT
               !.http_thread.node_info.last_seen =
                   nodes_data[http_thread.node_info.id].last_seen,
               !.http_thread.pc = "lat"])

(* line 2119 *)
HttpReadLat ==
    /\ http_thread.pc = "lat"
    /\ Step([St EXCEPT
               !.http_thread.node_info.lat =
                   nodes_data[http_thread.node_info.id].latitude,
               !.http_thread.pc = "lon"])

(* line 2120 *)
HttpReadLon ==
    /\ http_thread.pc = "lon"
    /\ Step([St EXCEPT
               !.http_thread.node_info.lon =
                   nodes_data[http_thread.node_info.id].longitude,
               !.http_thread.pc = "last_position_update"])

(* line 2138, and result.append(node_info) of get_nodes *)
HttpReadLastPositionUpdate ==
    /\ http_thread.pc = "last_position_update"
    /\ Step([St EXCEPT
               !.http_thread.result =
                   Append(@, [http_thread.node_info EXCEPT
                                !.last_position_update =
                                    nodes_data[http_thread.node_info.id]
                                        .last_position_update]),
               !.http_thread.node_info = NoNodeInfo,
               !.http_thread.pc = "next"])

NextThreads ==
    \/ Connect
    \/ LoopReceive
    \/ LoopEnsureNode
    \/ LoopTrackMovement
    \/ LoopSmtpReturns
    \/ LoopStoreLatitude
    \/ LoopStoreLongitude
    \/ LoopStoreLastSeen
    \/ LoopStoreLastPositionUpdate
    \/ LoopFinishPosition
    \/ HttpGetNodes
    \/ HttpNext
    \/ HttpReadLastSeen
    \/ HttpReadLat
    \/ HttpReadLon
    \/ HttpReadLastPositionUpdate

SpecThreads == InitThreads /\ [][NextThreads]_vars

----------------------------------------------------------------------------
(* The broker's side of a client whose network loop runs: it answers a     *)
(* CONNECT, drops the connection, or forwards a packet.  paho calls the    *)
(* callbacks on the loop thread, when connect_mqtt has installed them.     *)

Awaiting(k) == clients[k].loop_running /\ clients[k].session = "pending"
Established(k) == clients[k].loop_running /\ clients[k].session = "up"

SessionAfterConnack(S, k, reason_code) ==
    IF reason_code = 0 THEN [S EXCEPT !.clients[k].session = "up"] ELSE S

OnConnack(S, k, reason_code) ==
    IF S.clients[k].callbacks
    THEN _on_mqtt_connect(SessionAfterConnack(S, k, reason_code), k, reason_code)
    ELSE SessionAfterConnack(S, k, reason_code)

OnConnectionLost(S, k) ==
    IF S.clients[k].callbacks
    THEN _on_mqtt_disconnect([S EXCEPT !.clients[k].session = "pending",
                                       !.clients[k].subscribed = FALSE])
    ELSE [S EXCEPT !.clients[k].session = "pending",
                   !.clients[k].subscribed = FALSE]

BrokerConnack ==
    \E k \in DOMAIN clients, reason_code \in ReasonCodes :
        /\ Awaiting(k)
        /\ reason_code = 0 => clients[k].subscribes < MaxSubscribes
        /\ Apply([OnConnack(St, k, reason_code) EXCEPT
                    !.last_msg = None,
                    !.last_connack = Some([client |-> k,
                                           reason_code |-> reason_code])])

BrokerDisconnect ==
    \E k \in DOMAIN clients :
        /\ Established(k)
        /\ Step(OnConnectionLost(St, k))

(* A packet reaches the callback of a client that is subscribed *)
Receiving(k) == Established(k) /\ clients[k].subscribed /\ clients[k].callbacks

----------------------------------------------------------------------------
(* SpecStartup: the start-up path and two request threads call             *)
(* start_mqtt_on_startup, and the background threads they start run        *)
(* connect_mqtt, all statement by statement on the shared globals.         *)

InitStartup == InitWith(ConfigFile(NoHomeNodes, FALSE))

CallerAt(h, pc) == request_threads[h] = pc
CallerGoto(S, h, pc) == [S EXCEPT !.request_threads[h] = pc]

(* main.py:299-303: a request arrives after start-up and the hook runs *)
HookCallsStart ==
    \E h \in RequestThreads :
        /\ CallerAt(h, "idle")
        /\ CallerAt(0, "done")
        /\ HookCalls(St)
        /\ Step(CallerGoto(St, h, "reap"))

CallerReap ==
    \E h \in Callers :
        /\ CallerAt(h, "reap")
        /\ Step(CallerGoto(ReapDeadThread(St), h, "test"))

(* main.py:286 *)
CallerTest ==
    \E h \in Callers :
        /\ CallerAt(h, "test")
        /\ Step(CallerGoto(St, h, IF main_mqtt_thread = None THEN "create"
                                  ELSE IF h = 0 THEN "done" ELSE "idle"))

CallerCreate ==
    \E h \in Callers :
        /\ CallerAt(h, "create")
        /\ Len(background_threads) < MaxThreads
        /\ Step(CallerGoto(CreateThread(St), h, "start"))

CallerStart ==
    \E h \in Callers :
        /\ CallerAt(h, "start")
        /\ Step(CallerGoto(StartThread(St), h, IF h = 0 THEN "done" ELSE "idle"))

Threads == DOMAIN background_threads
ThreadAt(t, pc) == background_threads[t].pc = pc
ThreadGoto(S, t, pc) == [S EXCEPT !.background_threads[t].pc = pc]

(* What connect_mqtt does next when the statement found `client` set or    *)
(* not: it goes on, or returns False to run_mqtt_in_background.            *)
OrReturn(pc) == IF client = None THEN "watch" ELSE pc

(* mqtt_handler.py:1781 *)
ThreadCheck ==
    \E t \in Threads :
        /\ ThreadAt(t, "check")
        /\ Step(ThreadGoto(St, t, IF ClientExists(St) THEN "watch" ELSE "create"))

ThreadCreateClient ==
    \E t \in Threads :
        /\ ThreadAt(t, "create")
        /\ Step(ThreadGoto(CreateClient(St), t, "callbacks"))

(* the configured key is valid *)
ThreadSetCallbacks ==
    \E t \in Threads :
        /\ ThreadAt(t, "callbacks")
        /\ Step(ThreadGoto(SetCallbacks(DecodeKey(St, TRUE)), t, OrReturn("connect")))

ThreadConnect ==
    \E t \in Threads, connect_ok \in BOOLEAN :
        /\ ThreadAt(t, "connect")
        /\ Step(ThreadGoto(ConnectClient(St, connect_ok), t,
                           IF connect_ok THEN OrReturn("loop_start") ELSE "watch"))

ThreadLoopStart ==
    \E t \in Threads :
        /\ ThreadAt(t, "loop_start")
        /\ Step(ThreadGoto(LoopStart(St), t, OrReturn("mark")))

ThreadMarkConnectionAttempt ==
    \E t \in Threads :
        /\ ThreadAt(t, "mark")
        /\ Step(ThreadGoto(MarkConnectionAttempt(St), t, "seed"))

ThreadSeed ==
    \E t \in Threads :
        /\ ThreadAt(t, "seed")
        /\ Step(ThreadGoto(_initialize_special_nodes_at_startup(St), t, "watch"))

(* main.py:264-269: the thread ends once it finds `client` None *)
ThreadExit ==
    \E t \in Threads :
        /\ ThreadAt(t, "watch")
        /\ client = None
        /\ Step(ThreadGoto(St, t, "exited"))

GatewayReport ==
    Msg(TopicVia(4), MeshPacket(3, 9, <<3, 1>>, 0, 0, "NODEINFO_APP",
                                UserPayload(Some("GW3"))))

ReceiveGatewayReport ==
    \E k \in DOMAIN clients :
        /\ Receiving(k)
        /\ ~packets_received
        /\ Deliver(GatewayReport, TRUE)

NextStartup ==
    \/ HookCallsStart
    \/ CallerReap
    \/ CallerTest
    \/ CallerCreate
    \/ CallerStart
    \/ ThreadCheck
    \/ ThreadCreateClient
    \/ ThreadSetCallbacks
    \/ ThreadConnect
    \/ ThreadLoopStart
    \/ ThreadMarkConnectionAttempt
    \/ ThreadSeed
    \/ ThreadExit
    \/ BrokerConnack
    \/ BrokerDisconnect
    \/ ReceiveGatewayReport

SpecStartup == InitStartup /\ [][NextStartup]_vars

----------------------------------------------------------------------------
(* SpecConnection: one connection over time.  The tracker connects, the    *)
(* broker accepts or refuses, drops the connection and takes it back,      *)
(* packets arrive, disconnect_mqtt is called, and the clock advances.      *)

InitConnection == InitWith(ConfigFile(NoHomeNodes, FALSE))

ReceivePacket ==
    \E k \in DOMAIN clients :
        /\ Receiving(k)
        /\ Deliver(GatewayReport, TRUE)

CallDisconnectMqtt ==
    /\ client # None
    /\ Step(disconnect_mqtt(St))

NextConnection ==
    \/ Connect
    \/ BrokerConnack
    \/ BrokerDisconnect
    \/ ReceivePacket
    \/ CallDisconnectMqtt
    \/ Tick

SpecConnection == InitConnection /\ [][NextConnection]_vars

----------------------------------------------------------------------------
(* SpecArchive: special node 1 is heard directly by gateway 4 and sends    *)
(* packets of every port, with and without packet id; the processing of a  *)
(* packet after its archive step may raise.                                *)

(* the ports whose handler calls _track_special_node_packet *)
ArchivePorts == {"POSITION_APP", "NODEINFO_APP", "TELEMETRY_APP", "MAP_REPORT_APP"}
LivenessPorts == {"NEIGHBORINFO_APP", "ADMIN_APP"}

MapReportPayload(modem_preset) == [modem_preset |-> modem_preset, long_name |-> None]

BuoyPayload(portnum) ==
    CASE portnum \in {"POSITION_APP", "TELEMETRY_APP", "NODEINFO_APP"} -> PayloadOf(portnum)
      [] portnum = "MAP_REPORT_APP" -> MapReportPayload(Some(JsonStr("LONG_SLOW")))
      [] OTHER -> [variant |-> portnum]

BuoyMsgs ==
    { Msg(TopicVia(4), MeshPacket(1, id, <<3, 3>>, -90, 0, portnum, BuoyPayload(portnum))) :
        id \in {0, 7}, portnum \in ArchivePorts \cup LivenessPorts }

InitArchive == InitWith(ConfigFile(NoHomeNodes, FALSE))

ReceiveFromBuoy ==
    \E msg \in BuoyMsgs : Connected /\ HistoryBudget /\ Deliver(msg, TRUE)

(* The state a handler leaves when the first statement after its archive   *)
(* step raises: the handler's own `except Exception` logs the error        *)
(* (mqtt_handler.py:1023, 1192, 1358, 1454).                               *)
RaisesBeforeArchive(S, portnum, j) == MarkMessage(S)
HandlerRaises(S, portnum, j) == ArchiveFirst(MarkMessage(S), j.from, portnum, j)

Raised(msg) == [topic |-> msg.topic, envelope |-> msg.envelope, raises |-> TRUE]

ReceiveAndProcessingRaises ==
    \E msg \in {m \in BuoyMsgs : m.envelope.mp.portnum \in ArchivePorts} :
        /\ Connected
        /\ Apply([HandlerRaises(MarkPacket(St), msg.envelope.mp.portnum,
                                JsonPacket(msg)) EXCEPT
                    !.last_msg = Some(Raised(msg)),
                    !.last_connack = None,
                    !.last_packet_arrival = Some(now)])

NextArchive == Connect \/ ReceiveFromBuoy \/ ReceiveAndProcessingRaises

SpecArchive == InitArchive /\ [][NextArchive]_vars

----------------------------------------------------------------------------
(* SpecUplink: special node 2 has an MQTT uplink of its own.  It hears     *)
(* node 1 directly, so it is a gateway of node 1, and its own position     *)
(* packet 9 reaches the broker through gateway 4 in a strong and a weak    *)
(* copy, while the clock advances.                                         *)

UplinkMsgs ==
    { Msg(TopicVia(2), MeshPacket(1, 7, <<3, 3>>, rssi, 0, "TELEMETRY_APP",
                                  PayloadOf("TELEMETRY_APP"))) : rssi \in {-90, -60} }
    \cup
    { Msg(TopicVia(4), MeshPacket(2, 9, <<3, 3>>, rssi, 0, "POSITION_APP",
                                  PositionPayload(Some(12000), Some(10000)))) :
        rssi \in {-90, -60} }

InitUplink == InitWith(ConfigFile(NoHomeNodes, FALSE))

ReceiveUplinked ==
    \E msg \in UplinkMsgs : Connected /\ HistoryBudget /\ Deliver(msg, TRUE)

(* the clock of the specifications that stamp every packet stops earlier *)
TickEarly ==
    /\ now < MaxSeenTime
    /\ Step([St EXCEPT !.now = now + 1])

NextUplink == Connect \/ ReceiveUplinked \/ TickEarly

SpecUplink == InitUplink /\ [][NextUplink]_vars

----------------------------------------------------------------------------
(* SpecLastSeen: node 1 sends a packet of each archived port, heard        *)
(* directly by gateway 4, which also reports its own name; the clock       *)
(* advances, and the tracker disconnects and connects again.               *)

LastSeenMsgs ==
    { Msg(TopicVia(4), MeshPacket(1, 7, <<3, 3>>, -90, 0, portnum, BuoyPayload(portnum))) :
        portnum \in ArchivePorts }
    \cup
    { Msg(TopicVia(4), MeshPacket(4, 9, <<3, 3>>, 0, 0, "NODEINFO_APP",
                                  UserPayload(Some("GW4")))) }

InitLastSeen == InitWith(ConfigFile(NoHomeNodes, FALSE))

ReceiveTimed ==
    \E msg \in LastSeenMsgs : Connected /\ HistoryBudget /\ Deliver(msg, TRUE)

NextLastSeen == Connect \/ CallDisconnectMqtt \/ ReceiveTimed \/ TickEarly

SpecLastSeen == InitLastSeen /\ [][NextLastSeen]_vars

----------------------------------------------------------------------------
(* SpecHistory: special node 1 reports positions, some of them twice with   *)
(* the receive time its gateway stamped, and telemetry, while the clock    *)
(* runs past the history window.  The packets are relayed and carry no     *)
(* packet id, so that the archive and the gateway edges stay empty.        *)

MaxPositions == 3       \* position packets in one run

TrailMsg(portnum, payload) ==
    Msg(TopicVia(4), MeshPacket(1, 0, <<3, 2>>, -90, 0, portnum, payload))

(* from (0.0012, 0.0012) with the receive time 5 or without one (0 is the  *)
(* unset value), and from (0, 0)                                           *)
TrailPositionMsgs ==
    { WithRxTime(TrailMsg("POSITION_APP",
                          PositionPayload(Some(12000), Some(12000))), r) :
        r \in {0, 5} }
    \cup
    { TrailMsg("POSITION_APP", PositionPayload(Some(0), Some(0))) }

TrailTelemetryMsgs ==
    { TrailMsg("TELEMETRY_APP", TelemetryPayload(Some(80), None)) }

(* The position packet msg was delivered; it appended a point iff the      *)
(* history is not what it was (pruning never undoes an append).            *)
LogPosition(S, msg, history_before) ==
    [S EXCEPT !.position_log =
        Append(@, [node |-> msg.envelope.mp.from,
                   rx_time |-> msg.envelope.mp.rx_time,
                   appended |-> S.special_history # history_before])]

InitHistory == InitWith(ConfigFile(NoHomeNodes, FALSE))

ReceiveTrailPosition ==
    \E msg \in TrailPositionMsgs :
        /\ Connected
        /\ Len(position_log) < MaxPositions
        /\ Apply(LogPosition(Delivered(St, msg, TRUE), msg, special_history))

ReceiveTrailTelemetry ==
    \E msg \in TrailTelemetryMsgs : Connected /\ Deliver(msg, TRUE)

(* an hour passes *)
TickHour ==
    /\ now + HOUR <= MaxTime
    /\ Step([St EXCEPT !.now = now + HOUR])

(* the `hours` of a request: absent, or a number of hours *)
HistoryHours == {None, Some(1), Some(2)}

(* main.py:397-431: GET /api/special/history/batch asks for the history of *)
(* each special node; node_id is the one the loop has reached when it ends *)
(* or fails                                                                *)
HistoryRequest(node_id, hours, outcome) ==
    [pc |-> "history", size |-> 0, index |-> 0,
     node_info |-> [NoNodeInfo EXCEPT !.id = node_id],
     hours |-> hours, result |-> outcome.value, error |-> outcome.raised]

CallGetSpecialHistory ==
    \E node_id \in SpecialIds, hours \in HistoryHours :
        /\ Connected
        /\ Step([St EXCEPT !.http_thread =
                    HistoryRequest(node_id, hours,
                                   get_special_history(St, node_id, hours))])

NextHistory ==
    Connect \/ ReceiveTrailPosition \/ ReceiveTrailTelemetry \/ TickHour

SpecHistory == InitHistory /\ [][NextHistory]_vars

----------------------------------------------------------------------------
(* SpecRetention: special node 1 sends two packets, heard by gateway 4,    *)
(* over more than a week.  SpecRetentionFair adds that time passes; when   *)
(* packets arrive is up to the mesh.                                       *)

MaxDays == 8            \* the clock of this run stops after eight days
DAY == 24 * HOUR

RetentionMsgs ==
    { Msg(TopicVia(4), MeshPacket(1, id, <<3, 3>>, -90, 0, "TELEMETRY_APP",
                                  PayloadOf("TELEMETRY_APP"))) : id \in {7, 8} }

ReceiveOverDays ==
    \E msg \in RetentionMsgs : Connected /\ HistoryBudget /\ Deliver(msg, TRUE)

(* a day passes *)
TickDay ==
    /\ now + DAY <= MaxDays * DAY + 1
    /\ Step([St EXCEPT !.now = now + DAY])

NextRetention == Connect \/ ReceiveOverDays \/ TickDay

SpecRetention == InitArchive /\ [][NextRetention]_vars

SpecRetentionFair == SpecRetention /\ WF_vars(TickDay)

----------------------------------------------------------------------------
(* SpecFaults: packets of special node 1 arrive through gateway 4, and the *)
(* processing of a packet may fail at any of the places where the code     *)
(* expects a failure.                                                      *)

MaxFaults == 2          \* failures in one run

(* Where the processing of a message fails:                                *)
(*   "envelope"  ServiceEnvelope.ParseFromString raises (line 1642)        *)
(*   "decrypt"   _decrypt_message_packet returns None (line 1652)          *)
(*   "portnum"   PortNum.Name raises ValueError for a port number the      *)
(*               installed protobufs do not know (line 1658)               *)
(*   "payload"   the ParseFromString of the payload raises (line 1721)     *)
(*   "handler"   the handler raises after its archive step                 *)
Faults == {"none", "envelope", "decrypt", "portnum", "payload", "handler"}

RaisesIn(S) == [raised |-> TRUE, value |-> S]

(* lines 1686-1687 and 1764-1768: `except Exception` logs the error, and   *)
(* the function returns                                                    *)
NoExcept(outcome) == outcome
ExceptException(outcome) == [outcome EXCEPT !.raised = FALSE]

(* lines 1708-1762: the payload is decoded and the handler called *)
RouteBody(S, portnum, j, fault, smtp_ok) ==
    IF fault = "payload" THEN RaisesIn(S)
    ELSE IF fault = "handler" /\ portnum \in ArchivePorts
    THEN Returns(HandlerRaises(S, portnum, j))
    ELSE Returns(_route_message_to_handler(S, portnum, j, smtp_ok))

(* lines 1632-1684: the body of the try of _on_mqtt_message *)
OnMessageBody(S, msg, fault, smtp_ok) ==
    IF msg.envelope.kind # "packet" \/ fault \in {"envelope", "decrypt"}
    THEN Returns([S EXCEPT !.last_packet_time = S.now])
    ELSE IF fault = "portnum"
    THEN RaisesIn([S EXCEPT !.last_packet_time = S.now])
    ELSE ExceptException(
             RouteBody(MarkPacket(S), msg.envelope.mp.portnum, JsonPacket(msg),
                       fault, smtp_ok))

(* lines 1614-1688 *)
OnMessageOutcome(S, msg, fault, smtp_ok) ==
    ExceptException(OnMessageBody(S, msg, fault, smtp_ok))

(* paho calls on_message on its loop thread and re-raises what the         *)
(* callback raises: the thread ends, and no callback runs again            *)
LoopAfter(outcome, fault) ==
    [outcome.value EXCEPT
       !.mqtt_thread.pc = IF outcome.raised THEN "dead" ELSE "idle",
       !.caught = IF fault = "none" THEN @ ELSE @ + 1]

Faulty(msg, fault) ==
    [topic |-> msg.topic, envelope |-> msg.envelope, fault |-> fault]

FaultMsgs ==
    { Msg(TopicVia(4), MeshPacket(1, 7, <<3, 3>>, -90, 0, portnum, BuoyPayload(portnum))) :
        portnum \in {"POSITION_APP", "TELEMETRY_APP", "MAP_REPORT_APP"} }

InitFaults == InitWith(ConfigFile(NoHomeNodes, FALSE))

ReceiveWithFault ==
    \E msg \in FaultMsgs, fault \in Faults :
        /\ Connected
        /\ mqtt_thread.pc = "idle"
        /\ HistoryBudget
        /\ fault # "none" => caught < MaxFaults
        /\ Apply([LoopAfter(OnMessageOutcome(St, msg, fault, TRUE), fault) EXCEPT
                    !.last_msg = Some(Faulty(msg, fault)),
                    !.last_connack = None,
                    !.last_packet_arrival = Some(now)])

NextFaults == Connect \/ ReceiveWithFault \/ TickEarly

SpecFaults == InitFaults /\ [][NextFaults]_vars

----------------------------------------------------------------------------
(* SpecMovement: alerts are enabled and the mail server accepts every      *)
(* mail.  Special node 1 has its home at (10, 10) and reports from 33 m,   *)
(* 110 m and 121 m north of it, while the clock advances.                  *)

MovementMsgs == { PositionMsg(1, lat_i, 10000) : lat_i \in {13000, 20000, 21000} }

(* The position packet msg was delivered at S.now: whether it left the     *)
(* node beyond the threshold, and whether a mail went out for it.          *)
LogMovement(S, msg, emitted_before) ==
    [S EXCEPT !.position_log =
        Append(@, [node |-> msg.envelope.mp.from,
                   t |-> S.now,
                   moved_far |-> S.nodes_data[msg.envelope.mp.from].moved_far
                                     = Some(TRUE),
                   sent |-> Len(S.emitted) > Len(emitted_before)])]

InitMovement == InitWith(HomeConfig(<<"Buoy", Decimal(10), Decimal(10)>>, TRUE))

ReceiveMovement ==
    \E msg \in MovementMsgs :
        /\ Connected
        /\ Len(position_log) < MaxPositions
        /\ Apply(LogMovement(Delivered(St, msg, TRUE), msg, emitted))

NextMovement == Connect \/ ReceiveMovement \/ Tick

SpecMovement == InitMovement /\ [][NextMovement]_vars

----------------------------------------------------------------------------
(* SpecRateLimit: two request threads of the threaded Flask server         *)
(* (main.py:565) pass through check_rate_limit for two client addresses.   *)

MaxRequests == 4        \* requests answered in one run
requests_per_hour == 2  \* int(config.API_RATE_LIMIT.split('/')[0])
SECONDS_PER_HOUR == HOUR
ClientIps == {"10.0.0.1", "10.0.0.2"}

(* main.py:116-119: the timestamps newer than hour_ago *)
KeepEverything(history, hour_ago) == history
RecentRequests(history, hour_ago) == SelectSeq(history, LAMBDA ts : ts > hour_ago)

(* main.py:122-126, on the cleaned list *)
CheckUnderLimit(S, client_ip, recent, t_now) ==
    IF Len(recent) < requests_per_hour
    THEN [S EXCEPT
            !.rate_limiter.request_history =
                DictSet(@, client_ip, Append(recent, t_now)),
            !.decisions =
                Append(@, [client_ip |-> client_ip, now |-> t_now,
                           allowed |-> TRUE, status |-> 200])]
    ELSE [S EXCEPT
            !.rate_limiter.request_history = DictSet(@, client_ip, recent),
            !.decisions =
                Append(@, [client_ip |-> client_ip, now |-> t_now,
                           allowed |-> FALSE, status |-> 429])]

(* main.py:115-126: the body of `with self.lock`, with the time t_now that *)
(* line 112 read                                                           *)
is_allowed_locked(S, client_ip, t_now) ==
    CheckUnderLimit(
        S, client_ip,
        RecentRequests(RecGet(S.rate_limiter.request_history, client_ip, <<>>),
                       t_now - SECONDS_PER_HOUR),
        t_now)

(* main.py:159-160, 112-113: check_rate_limit finds the client address and *)
(* is_allowed reads the clock, before it waits for the lock                *)
ReadClock(t) ==
    \E client_ip \in ClientIps :
        /\ limit_threads[t].pc = "idle"
        /\ Len(decisions)
             + Cardinality({u \in LimitThreads : limit_threads[u].pc # "idle"})
             < MaxRequests
        /\ Step([St EXCEPT !.limit_threads[t] =
                    [pc |-> "lock", client_ip |-> client_ip, now |-> now]])

(* main.py:115-126, 160-167: the thread holds the lock from the cleaning   *)
(* to the answer, then check_rate_limit answers 429 or calls the endpoint  *)
HoldLock(t) ==
    /\ limit_threads[t].pc = "lock"
    /\ Step([is_allowed_locked(St, limit_threads[t].client_ip,
                               limit_threads[t].now)
                EXCEPT !.limit_threads[t] = NoLimitCall])

InitRateLimit == InitWith(ConfigFile(NoHomeNodes, FALSE))

NextRateLimit ==
    \/ \E t \in LimitThreads : ReadClock(t)
    \/ \E t \in LimitThreads : HoldLock(t)
    \/ Tick

SpecRateLimit == InitRateLimit /\ [][NextRateLimit]_vars

----------------------------------------------------------------------------
(* SpecHistoryRead: the trail of node 1 is read while it is built *)
NextHistoryRead ==
    Connect \/ ReceiveTrailPosition \/ TickHour \/ CallGetSpecialHistory

SpecHistoryRead == InitHistory /\ [][NextHistoryRead]_vars

----------------------------------------------------------------------------
(* SpecRoster: special node 1 is heard directly by nodes 4 and 5, node 4    *)
(* reports its name, and nodes 5 and 6 report their positions, relayed:    *)
(* node 6 stays an ordinary node, node 5 is one until it is a gateway.     *)

RosterMsgs ==
    { Msg(TopicVia(g), MeshPacket(1, 7, <<3, 3>>, rssi, 0, "TELEMETRY_APP",
                                  PayloadOf("TELEMETRY_APP"))) :
        g \in {4, 5}, rssi \in {-90, -60} }
    \cup
    { PositionMsg(5, 12000, 12000), PositionMsg(6, 13000, 12000),
      Msg(TopicVia(4), MeshPacket(4, 9, <<3, 3>>, 0, 0, "NODEINFO_APP",
                                  UserPayload(Some("GW4")))) }

InitRoster == InitWith(ConfigFile(NoHomeNodes, FALSE))

ReceiveRoster == \E msg \in RosterMsgs : Connected /\ Deliver(msg, TRUE)

NextRoster == Connect \/ ReceiveRoster

SpecRoster == InitRoster /\ [][NextRoster]_vars

\* C1: any two accepted e-mails with the same (node_id, kind) are at least
\* ALERT_COOLDOWN apart.
C1_CooldownBetweenAlerts ==
    \A i, j \in 1..Len(emitted) :
        (i < j /\ emitted[i].key = emitted[j].key)
            => emitted[j].t - emitted[i].t >= ALERT_COOLDOWN

\* C2: when the SMTP send of an alert call fails, the cooldown entry of that
\* (node, kind) is what it was before the send.
C2_FailedSendKeepsCooldown ==
    last_call.outcome = "smtp_failed" =>
        (IF last_call.key \in DOMAIN last_alert_sent
         THEN Some(last_alert_sent[last_call.key]) ELSE None) = last_call.before

\* C3: the packet archive of a special node never holds two entries with the
\* same packet id.
C3_UniquePacketIds ==
    \A n \in DOMAIN special_node_packets :
        \A a, b \in 1..Len(special_node_packets[n]) :
            a # b => special_node_packets[n][a].id # special_node_packets[n][b].id

\* C3 witness: two packets are archived and a further copy of one of them
\* has just been turned away.
C3_DuplicateArrived ==
    /\ 1 \in DOMAIN special_node_packets
    /\ Len(special_node_packets[1]) = 2
    /\ last_track.did = "kept"

\* C4: the archived entry of a packet id scores the maximum over the copies
\* observed so far, so a direct copy beats every relayed one; and a copy has
\* replaced the stored one only with a strictly higher score.
C4_ArchivedCopyIsBest ==
    /\ \A n \in DOMAIN special_node_packets :
         \A a \in 1..Len(special_node_packets[n]) :
            LET entry == special_node_packets[n][a]
                k == <<n, Val(entry.id)>>
            IN /\ k \in DOMAIN observed_best
               /\ _get_signal_quality_score(entry) = observed_best[k]
               /\ observed_best[k] >= 1000 =>
                      /\ entry.hop_start # None
                      /\ entry.hop_start = entry.hop_limit
    /\ last_track.did = "replaced" => last_track.new_score > last_track.old_score

\* C4 witness: a relayed copy arrived after a direct copy was archived, and
\* the direct copy stayed.
C4_RelayedAfterDirect ==
    /\ last_track.did = "kept"
    /\ last_track.old_score >= 1000
    /\ last_track.new_score < 1000
    /\ \E a \in 1..Len(special_node_packets[last_track.node]) :
           /\ special_node_packets[last_track.node][a].id = Some(last_track.id)
           /\ special_node_packets[last_track.node][a].hop_limit = Some(3)

\* C5: the best_gateway of a special node has the largest rssi among the
\* node's gateway edges of the highest confidence level recorded.
C5_BestGatewayIsStrongest ==
    \A n \in DOMAIN special_node_gateways :
        (n \in DOMAIN nodes_data /\ nodes_data[n].best_gateway # None) =>
            LET edges == special_node_gateways[n]
                top == IF \E g \in DOMAIN edges : edges[g].confidence = "direct"
                       THEN "direct" ELSE "partial"
                heard == {g \in DOMAIN edges :
                             edges[g].confidence = top /\ edges[g].rssi # None}
            IN \A g \in heard :
                   Val(edges[g].rssi) <= Val(nodes_data[n].best_gateway).rssi

(* The last delivered message was relayed or lacks a hop field. *)
NotDirectJson(j) ==
    \/ j.hop_start = None
    \/ j.hop_limit = None
    \/ Val(j.hop_start) > Val(j.hop_limit)

DirectEdgesFromDirectPackets ==
    \A n \in DOMAIN special_node_gateways :
        \A g \in DOMAIN special_node_gateways[n] :
            LET edge == special_node_gateways[n][g]
            IN edge.confidence = "direct" =>
                   /\ edge.hop_start # None
                   /\ edge.hop_limit # None
                   /\ edge.hop_start = edge.hop_limit

EdgeReception(edge) ==
    [rssi |-> edge.rssi, snr |-> edge.snr, confidence |-> edge.confidence,
     hop_start |-> edge.hop_start, hop_limit |-> edge.hop_limit]

Receptions(gateways) ==
    [n \in DOMAIN gateways |->
        [g \in DOMAIN gateways[n] |-> EdgeReception(gateways[n][g])]]

\* C6 as stated: a direct edge carries equal hop fields that are present, and
\* the delivery of a relayed or hop-less packet leaves every gateway edge as
\* it was.
C6_RelayedPacketLeavesEdges ==
    [][ /\ DirectEdgesFromDirectPackets'
        /\ (last_msg' # None /\ NotDirectJson(JsonPacket(Val(last_msg')))) =>
               special_node_gateways' = special_node_gateways ]_vars

\* C6 amended: a direct edge carries equal hop fields that are present, and
\* the delivery of a relayed or hop-less packet creates no edge and leaves the
\* recorded reception (rssi, snr, confidence, hops) of every edge as it was;
\* it changes at most the name, position and last_seen of the edges that
\* lead to the packet's own sender.
C6_RelayedPacketLeavesReceptions ==
    [][ /\ DirectEdgesFromDirectPackets'
        /\ (last_msg' # None /\ NotDirectJson(JsonPacket(Val(last_msg')))) =>
               /\ Receptions(special_node_gateways') = Receptions(special_node_gateways)
               /\ \A n \in DOMAIN special_node_gateways :
                    \A g \in DOMAIN special_node_gateways[n] :
                       special_node_gateways'[n][g] # special_node_gateways[n][g]
                           => g = Val(last_msg').envelope.mp.from ]_vars

\* C6 witness: gateway 3, already recorded as a direct receiver of node 1,
\* has just delivered its own relayed node info, and the edge bears its name.
C6_RelayedGatewayReport ==
    /\ last_msg # None
    /\ NotDirectJson(JsonPacket(Val(last_msg)))
    /\ Val(last_msg).envelope.mp.from = 3
    /\ 1 \in DOMAIN special_node_gateways
    /\ 3 \in DOMAIN special_node_gateways[1]
    /\ special_node_gateways[1][3].confidence = "direct"
    /\ special_node_gateways[1][3].name = "GW3"

\* C7: every node record has latitude and longitude both present or both
\* absent, in every state from the pre-seeding at start-up on.
C7_LatitudeAndLongitudeTogether ==
    \A n \in DOMAIN nodes_data :
        (nodes_data[n].latitude = None) <=> (nodes_data[n].longitude = None)

\* C8: for every special node with a distance from its origin, moved_far is
\* true exactly when that distance is at least the movement threshold now in
\* force.
C8_MovedFarFollowsThreshold ==
    \A n \in DOMAIN nodes_data \cap DOMAIN SPECIAL_NODES :
        nodes_data[n].distance_from_origin_m # None =>
            ((nodes_data[n].moved_far = Some(TRUE))
                <=> (Val(nodes_data[n].distance_from_origin_m)
                        >= SPECIAL_MOVEMENT_THRESHOLD_METERS))

(* the position a special node is pre-seeded with at start-up *)
SeededPosition(n) ==
    [lat |-> SPECIAL_NODES[n].home_lat, lon |-> SPECIAL_NODES[n].home_lon,
     last_position_update |-> None]

\* C9: get_nodes never fails on a change of the node map, and the latitude,
\* longitude and last_position_update it returns for a node are those of the
\* start-up seed or of one completed on_position call.
C9_GetNodesReadsOneUpdate ==
    /\ ~http_thread.error
    /\ \A i \in 1..Len(http_thread.result) :
          LET node_info == http_thread.result[i]
          IN [lat |-> node_info.lat, lon |-> node_info.lon,
              last_position_update |-> node_info.last_position_update]
                \in (IF node_info.id \in DOMAIN committed
                     THEN committed[node_info.id] ELSE {})
                    \cup {SeededPosition(node_info.id)}

\* C10: the MQTT network loop thread is never inside the SMTP send.
C10_LoopThreadNeverSendsMail == mqtt_thread.pc # "smtp"


(* The clients whose network loop thread runs *)
RunningLoops == {k \in DOMAIN clients : clients[k].loop_running}

\* C11: whatever the interleaving of the start_mqtt_on_startup calls of the
\* start-up path and of the request threads, at most one MQTT client has a
\* running network loop.
C11_OneRunningClient == Cardinality(RunningLoops) <= 1


\* C12: a connect event with reason code 0, the first or a later one, makes
\* one subscribe call on the client and leaves it subscribed; a connect
\* event with another reason code makes no subscribe call and leaves
\* message_received as it was.
C12_SubscribeOnEveryConnect ==
    [][last_connack' # None =>
          IF Val(last_connack').reason_code = 0
          THEN /\ clients'[Val(last_connack').client].subscribes
                    = clients[Val(last_connack').client].subscribes + 1
               /\ clients'[Val(last_connack').client].subscribed
          ELSE /\ clients'[Val(last_connack').client].subscribes
                    = clients[Val(last_connack').client].subscribes
               /\ message_received' = message_received]_vars

(* a reconnection has been answered with the second subscribe *)
C12_Resubscribed ==
    /\ last_connack # None
    /\ Val(last_connack).reason_code = 0
    /\ mqtt_was_connected
    /\ clients[Val(last_connack).client].subscribes = 2

(* The time since the last packet, when there was one *)
NoRecentPacket ==
    IF last_packet_arrival = None THEN TRUE
    ELSE now - Val(last_packet_arrival)
            >= StalenessThreshold(SHOW_ALL_NODES, SHOW_GATEWAYS)

Status == is_connected(St, StalenessThreshold(SHOW_ALL_NODES, SHOW_GATEWAYS))

\* C13: when packets were received earlier and none within the staleness
\* threshold, is_connected() returns 'stale_data', also when the broker
\* dropped the connection after the last packet.
C13_StaleAfterSilence ==
    (last_packet_arrival # None /\ NoRecentPacket) => Status = "stale_data"

\* C14: when no MQTT client exists and no packet was received within the
\* staleness threshold, is_connected() returns 'disconnected'.
C14_DisconnectedWithoutClient ==
    (client = None /\ NoRecentPacket) => Status = "disconnected"


\* C15: in every interleaving of connect_mqtt with the connect callback of
\* the network loop, once the broker has accepted the connection of the
\* current client and no packet has been received yet, is_connected()
\* returns 'connected_to_server'.
C15_ConfirmedIsConnectedToServer ==
    (/\ client # None
     /\ clients[Val(client)].session = "up"
     /\ ~packets_received)
        => Status = "connected_to_server"


(* The packet the step delivered, its sender's archive before and after *)
ArchiveOf(packets, node_id) ==
    IF node_id \in DOMAIN packets THEN packets[node_id] ELSE <<>>

DeliveredFromSpecial(msg) ==
    /\ msg # None
    /\ Val(msg).envelope.kind = "packet"
    /\ Val(msg).envelope.mp.from \in DOMAIN SPECIAL_NODES

\* C16: a packet of a special node that carries no packet id, delivered to
\* a handler that archives, adds one entry to the node's archive.
C16_IdlessPacketArchived ==
    [][(/\ DeliveredFromSpecial(last_msg')
        /\ Val(last_msg').envelope.mp.portnum \in ArchivePorts
        /\ Val(last_msg').envelope.mp.id = 0) =>
           Len(ArchiveOf(special_node_packets', Val(last_msg').envelope.mp.from))
             = Len(ArchiveOf(special_node_packets, Val(last_msg').envelope.mp.from)) + 1
      ]_vars

\* C17: a NeighborInfo or Admin packet of a special node is in the node's
\* archive after its delivery, the node's last-packet time is the time of
\* the delivery, and the node records are as before.
C17_LivenessPacketArchived ==
    [][(/\ DeliveredFromSpecial(last_msg')
        /\ Val(last_msg').envelope.mp.portnum \in LivenessPorts) =>
           /\ \E i \in DOMAIN ArchiveOf(special_node_packets',
                                        Val(last_msg').envelope.mp.from) :
                 special_node_packets'[Val(last_msg').envelope.mp.from][i].packet_type
                     = Val(last_msg').envelope.mp.portnum
           /\ Val(last_msg').envelope.mp.from \in DOMAIN special_node_last_packet'
           /\ special_node_last_packet'[Val(last_msg').envelope.mp.from] = now'
           /\ nodes_data' = nodes_data
      ]_vars

\* C18: a NodeInfo, Position, Telemetry or MapReport packet of a special
\* node with a packet id not seen before is in the node's archive once its
\* handler has returned, whether the processing after the archive step
\* completed or raised; when it raised, the sender's record is as before
\* but for the best_gateway that the archive step itself maintains.
C18_ArchivedDespiteError ==
    [][(/\ DeliveredFromSpecial(last_msg')
        /\ Val(last_msg').envelope.mp.portnum \in ArchivePorts
        /\ Val(last_msg').envelope.mp.id # 0
        /\ ~\E i \in DOMAIN ArchiveOf(special_node_packets,
                                      Val(last_msg').envelope.mp.from) :
               special_node_packets[Val(last_msg').envelope.mp.from][i].id
                   = Some(Val(last_msg').envelope.mp.id)) =>
           /\ \E i \in DOMAIN ArchiveOf(special_node_packets',
                                        Val(last_msg').envelope.mp.from) :
                 /\ special_node_packets'[Val(last_msg').envelope.mp.from][i].id
                        = Some(Val(last_msg').envelope.mp.id)
                 /\ special_node_packets'[Val(last_msg').envelope.mp.from][i].packet_type
                        = Val(last_msg').envelope.mp.portnum
           /\ ("raises" \in DOMAIN Val(last_msg')
                  /\ Val(last_msg').envelope.mp.from \in DOMAIN nodes_data) =>
                  [nodes_data'[Val(last_msg').envelope.mp.from] EXCEPT
                      !.best_gateway =
                          nodes_data[Val(last_msg').envelope.mp.from].best_gateway]
                      = nodes_data[Val(last_msg').envelope.mp.from]
      ]_vars

(* the processing of packet 7 raised and the packet is archived *)
C18_RaisedAndArchived ==
    /\ last_msg # None
    /\ "raises" \in DOMAIN Val(last_msg)
    /\ Val(last_msg).envelope.mp.id = 7
    /\ last_track.did = "new"
    /\ Len(ArchiveOf(special_node_packets, 1)) = 1


(* The score of the archived copy of packet_id of node_id *)
ArchivedScore(node_id, packet_id) ==
    OldSignalScore(special_node_packets[node_id],
                   _packet_id_tracking[node_id][packet_id].stored_index)

(* msg is a copy of a packet that is archived already, and its score is    *)
(* not higher than that of the archived copy                               *)
IsWeakerCopy(msg) ==
    /\ DeliveredFromSpecial(msg)
    /\ Val(msg).envelope.mp.id # 0
    /\ Val(msg).envelope.mp.from \in DOMAIN _packet_id_tracking
    /\ Val(msg).envelope.mp.id \in DOMAIN _packet_id_tracking[Val(msg).envelope.mp.from]
    /\ _get_signal_quality_score(JsonPacket(Val(msg)))
          <= ArchivedScore(Val(msg).envelope.mp.from, Val(msg).envelope.mp.id)

BestGateways(nodes) == [n \in DOMAIN nodes |-> nodes[n].best_gateway]

(* An edge record but for the position and time on_position writes *)
EdgeReceptionOnly(edge) == [edge EXCEPT !.lat = None, !.lon = None, !.last_seen = 0]

C20_LastSeenNeverDecreases ==
    [][\A n \in DOMAIN nodes_data :
          /\ n \in DOMAIN nodes_data'
          /\ nodes_data[n].last_seen # None =>
                /\ nodes_data'[n].last_seen # None
                /\ Val(nodes_data'[n].last_seen) >= Val(nodes_data[n].last_seen)
      ]_vars

(* node 1 was heard now, later than the start, gateway 4 was recorded      *)
(* earlier, and the tracker has connected again since                      *)
C20_SeenAtDifferentTimes ==
    /\ 1 \in DOMAIN nodes_data
    /\ 4 \in DOMAIN nodes_data
    /\ nodes_data[1].last_seen # None
    /\ nodes_data[4].last_seen # None
    /\ Val(nodes_data[4].last_seen) > 1
    /\ Val(nodes_data[1].last_seen) > Val(nodes_data[4].last_seen)
    /\ last_msg = None
    /\ client # None
    /\ ~message_received


(* the entries of the position log of node n *)
LoggedOf(n) == {i \in 1..Len(position_log) : position_log[i].node = n}

\* C21: a position packet of a special node that carries a receive time
\* appends a history point only if no earlier position packet of that node
\* with the same receive time appended one; a position packet without
\* receive time always appends one; hence the points appended for a node
\* are at most the distinct receive times plus the packets without one.
C21_HistoryDeduplicatedByRxTime ==
    /\ \A i \in 1..Len(position_log) :
          (position_log[i].appended /\ position_log[i].rx_time # 0) =>
              ~\E k \in 1..(i - 1) :
                  /\ position_log[k].node = position_log[i].node
                  /\ position_log[k].rx_time = position_log[i].rx_time
                  /\ position_log[k].appended
    /\ \A i \in 1..Len(position_log) :
          position_log[i].rx_time = 0 => position_log[i].appended
    /\ \A n \in SpecialIds :
          Cardinality({i \in LoggedOf(n) : position_log[i].appended})
            <= Cardinality({position_log[i].rx_time : i \in LoggedOf(n)} \ {0})
               + Cardinality({i \in LoggedOf(n) : position_log[i].rx_time = 0})

(* special_history.get(n, deque()) *)
HistoryOf(history, n) == IF n \in DOMAIN history THEN history[n] ELSE <<>>

OrderedByTs(points) ==
    \A a, b \in 1..Len(points) : a < b => points[a].ts <= points[b].ts

(* kept is what remains of points when some of the first are removed *)
IsTailOf(kept, points) ==
    \E d \in 0..Len(points) : kept = SubSeq(points, d + 1, Len(points))

\* C22: a step that appends to the history of a special node leaves no
\* point older than SPECIAL_HISTORY_HOURS hours before the time of the
\* append, leaves the history ordered by timestamp, and has removed nothing
\* but a run of the oldest points.
C22_PrunedOldestFirst ==
    [][\A n \in DOMAIN special_history' :
          special_history'[n] # HistoryOf(special_history, n) =>
              /\ special_history'[n] # <<>>
              /\ \A i \in 1..Len(special_history'[n]) :
                    special_history'[n][i].ts >= now' - SPECIAL_HISTORY_HOURS * HOUR
              /\ OrderedByTs(special_history'[n])
              /\ IsTailOf(SubSeq(special_history'[n], 1, Len(special_history'[n]) - 1),
                          HistoryOf(special_history, n))
      ]_vars

(* the third point was appended one hour after the window of the first had *)
(* ended: the first is gone, the second, as old as the window, is kept     *)
C22_OldestPrunedSecondKept ==
    /\ Len(position_log) = 3
    /\ \A i \in 1..3 : position_log[i].appended
    /\ Len(HistoryOf(special_history, 1)) = 2
    /\ special_history[1][1].ts = now - SPECIAL_HISTORY_HOURS * HOUR
    /\ special_history[1][2].ts = now

(* the step delivered a telemetry packet of a special node *)
TelemetryFromSpecial(msg) ==
    /\ DeliveredFromSpecial(msg)
    /\ Val(msg).envelope.mp.portnum = "TELEMETRY_APP"

(* the node record holds a position, and not the position (0, 0) *)
KnownPosition(data) ==
    /\ data.latitude # None
    /\ data.longitude # None
    /\ ~(Val(data.latitude) = 0 /\ Val(data.longitude) = 0)

LastPoint(points) == points[Len(points)]

\* C23: after a telemetry packet of a special node whose record holds a
\* known position, the last point of the node's history is at that
\* position, is less than 2 seconds old, and carries the node's battery
\* value and an rssi at least as good as the packet's.
C23_TelemetryRecordedInHistory ==
    [][(/\ TelemetryFromSpecial(last_msg')
        /\ KnownPosition(nodes_data'[Val(last_msg').envelope.mp.from])) =>
           /\ HistoryOf(special_history', Val(last_msg').envelope.mp.from) # <<>>
           /\ LastPoint(special_history'[Val(last_msg').envelope.mp.from]).ts = now'
           /\ LastPoint(special_history'[Val(last_msg').envelope.mp.from]).lat
                 = nodes_data'[Val(last_msg').envelope.mp.from].latitude
           /\ LastPoint(special_history'[Val(last_msg').envelope.mp.from]).lon
                 = nodes_data'[Val(last_msg').envelope.mp.from].longitude
           /\ LastPoint(special_history'[Val(last_msg').envelope.mp.from]).battery
                 = nodes_data'[Val(last_msg').envelope.mp.from].battery
           /\ LastPoint(special_history'[Val(last_msg').envelope.mp.from]).rssi # None
           /\ Val(LastPoint(special_history'[Val(last_msg').envelope.mp.from]).rssi)
                 >= Val(last_msg').envelope.mp.rx_rssi
      ]_vars

\* C24: every point of every history has a latitude and a longitude, and a
\* telemetry packet of a special node whose record holds no known position
\* (none, or latitude = longitude = 0) leaves the histories as they were.
C24_HistoryPointsHavePosition ==
    [][/\ \A n \in DOMAIN special_history' :
             \A i \in 1..Len(special_history'[n]) :
                 /\ special_history'[n][i].lat # None
                 /\ special_history'[n][i].lon # None
       /\ (/\ TelemetryFromSpecial(last_msg')
           /\ ~KnownPosition(nodes_data'[Val(last_msg').envelope.mp.from])) =>
              special_history' = special_history
      ]_vars

(* telemetry has just arrived from node 1, which reported from (0, 0) and  *)
(* has a point there                                                       *)
C24_TelemetryAtNullIsland ==
    /\ TelemetryFromSpecial(last_msg)
    /\ nodes_data[1].latitude = Some(0)
    /\ nodes_data[1].longitude = Some(0)
    /\ nodes_data[1].battery = Some(80)
    /\ HistoryOf(special_history, 1) # <<>>
    /\ LastPoint(special_history[1]).lat = Some(0)

(* the ids known as gateways in any of the three places that record them *)
KnownGateways ==
    {g \in DOMAIN node_is_gateway : node_is_gateway[g]}
    \cup all_gateway_node_ids \cup DOMAIN gateway_info_cache

ReturnedIds(result) == {result[i].id : i \in 1..Len(result)}

(* what C25 says of a result of get_nodes *)
SpecialsAndGateways(result) ==
    /\ \A a, b \in 1..Len(result) : a # b => result[a].id # result[b].id
    /\ ~SHOW_ALL_NODES =>
          \A i \in 1..Len(result) :
              \/ result[i].id \in DOMAIN SPECIAL_NODES
              \/ result[i].id \in KnownGateways
    /\ DOMAIN nodes_data \cap DOMAIN SPECIAL_NODES \subseteq ReturnedIds(result)
    /\ KnownGateways \subseteq ReturnedIds(result)

\* C25: get_nodes() returns no node id twice; with SHOW_ALL_NODES false
\* every node it returns is a special node or a gateway; and it returns
\* every special node of the store and every known gateway.
C25_GetNodesReturnsSpecialsAndGateways == SpecialsAndGateways(get_nodes(St))

(* the store holds both special nodes, the gateways 4 and 5 and the        *)
(* ordinary node 6; get_nodes returns the first four                       *)
C25_OrdinaryNodeLeftOut ==
    /\ 6 \in DOMAIN nodes_data
    /\ 5 \in all_gateway_node_ids
    /\ 4 \in all_gateway_node_ids
    /\ nodes_data[5].latitude # None
    /\ ReturnedIds(get_nodes(St)) = {1, 2, 4, 5}

(* what C26 says of the outcome of get_special_history(node_id, hours),    *)
(* called at the time current_time on the history points                   *)
LatestPerWindow(outcome, points, hours, current_time) ==
    /\ ~outcome.raised
    /\ \A i \in 1..Len(outcome.value) :
          /\ outcome.value[i].ts >= current_time - hours * HOUR
          /\ \E k \in 1..Len(points) : points[k] = outcome.value[i]
          /\ \A k \in 1..Len(points) :
                (/\ points[k].ts >= current_time - hours * HOUR
                 /\ points[k].ts \div DATA_LIMIT_TIME
                       = outcome.value[i].ts \div DATA_LIMIT_TIME)
                    => points[k].ts <= outcome.value[i].ts
    /\ \A a, b \in 1..Len(outcome.value) :
          a < b => /\ outcome.value[a].ts < outcome.value[b].ts
                   /\ outcome.value[a].ts \div DATA_LIMIT_TIME
                         # outcome.value[b].ts \div DATA_LIMIT_TIME

\* C26: get_special_history(node, hours) returns only points with
\* ts >= now - hours*3600, at most one point per data_limit_time window,
\* that point having the largest ts of its window, sorted by ascending ts.
C26_HistoryLatestPerWindow ==
    \A n \in SpecialIds, hours \in {1, 2} :
        LatestPerWindow(get_special_history(St, n, Some(hours)),
                        HistoryOf(special_history, n), hours, now)

(* the requests of client_ip that were allowed with a time in (w, w + 1h] *)
AllowedInWindow(client_ip, w) ==
    {i \in 1..Len(decisions) :
        /\ decisions[i].client_ip = client_ip
        /\ decisions[i].allowed
        /\ decisions[i].now > w
        /\ decisions[i].now <= w + SECONDS_PER_HOUR}

\* C27: for each client IP and any interleaving of concurrent requests, the
\* requests that is_allowed allows within any sliding window of 3600 s never
\* exceed requests_per_hour.
C27_AllowedWithinWindowBounded ==
    \A client_ip \in ClientIps, w \in 0..MaxTime :
        Cardinality(AllowedInWindow(client_ip, w)) <= requests_per_hour

(* the archive holds an entry stored more than seven days ago *)
ARCHIVE_RETENTION == 7 * DAY
ArchiveHoldsOldEntry ==
    \E n \in DOMAIN special_node_packets :
        \E i \in 1..Len(special_node_packets[n]) :
            special_node_packets[n][i].timestamp < now - ARCHIVE_RETENTION

ArchiveNeverShrinks ==
    [][\A n \in DOMAIN special_node_packets :
          /\ n \in DOMAIN special_node_packets'
          /\ Len(special_node_packets'[n]) >= Len(special_node_packets[n])]_vars

\* C29: no error raised while decoding or processing one MQTT message
\* escapes the message callback: _on_mqtt_message always returns, the loop
\* thread that called it lives on, and a message that arrives after a
\* failed one is processed by its handler.
C29_NoErrorEscapesCallback ==
    /\ mqtt_thread.pc # "dead"
    /\ (/\ last_msg # None
        /\ Val(last_msg).fault = "none") =>
           /\ message_received
           /\ packets_received
           /\ last_message_time = now
           /\ 1 \in DOMAIN special_node_last_packet
           /\ special_node_last_packet[1] = now

C29_ProcessedAfterFailures ==
    /\ caught = MaxFaults
    /\ last_msg # None
    /\ Val(last_msg).fault = "none"
    /\ Val(last_msg).envelope.mp.portnum = "POSITION_APP"
    /\ now = MaxSeenTime
    /\ special_node_last_packet[1] = now

(* packet j of the log follows packet i of the same node by less than the  *)
(* cooldown, and both leave the node beyond the threshold                  *)
SameRun(i, j) ==
    /\ i < j
    /\ position_log[i].node = position_log[j].node
    /\ position_log[i].moved_far
    /\ position_log[j].moved_far
    /\ position_log[j].t - position_log[i].t < ALERT_COOLDOWN

\* C30: with alerts enabled and SMTP succeeding, of a run of position
\* packets of a special node that each place it at or beyond the movement
\* threshold and all arrive within ALERT_COOLDOWN of the first, exactly one
\* emits a movement alert: the first one sends, every later one is skipped.
C30_OneAlertPerRun ==
    \A j \in 1..Len(position_log) :
        /\ position_log[j].sent => position_log[j].moved_far
        /\ position_log[j].sent =>
              \A i \in 1..Len(position_log) :
                  SameRun(i, j) => ~position_log[i].sent
        /\ (position_log[j].moved_far /\ ~position_log[j].sent) =>
              \E i \in 1..Len(position_log) :
                  SameRun(i, j) /\ position_log[i].sent

C30_SecondAndThirdSkipped ==
    /\ Len(position_log) = 3
    /\ SameRun(1, 2)
    /\ SameRun(1, 3)
    /\ position_log[1].t < position_log[2].t
    /\ position_log[1].sent
    /\ ~position_log[2].sent
    /\ ~position_log[3].sent
    /\ Len(emitted) = 1


(* the gateway named in the topic of the message *)
TopicGateway(msg) == _extract_gateway_node_id_from_topic(msg.topic)

\* C31: every copy of a special node's packet that was received directly
\* (hop_start = hop_limit) through the gateway G named in the MQTT topic
\* results in a gateway edge (special node, G), also when the copy is a
\* duplicate of a packet id that is archived already.
C31_DirectCopyGivesGatewayEdge ==
    (/\ DeliveredFromSpecial(last_msg)
     /\ IsDirectHop(JsonPacket(Val(last_msg)))
     /\ Truthy(TopicGateway(Val(last_msg)))) =>
        /\ Val(last_msg).envelope.mp.from \in DOMAIN special_node_gateways
        /\ Val(TopicGateway(Val(last_msg)))
             \in DOMAIN special_node_gateways[Val(last_msg).envelope.mp.from]


(* the gateway ids that are keys of some special node's edge map *)
EdgeGateways ==
    UNION {DOMAIN special_node_gateways[n] : n \in DOMAIN special_node_gateways}

\* C32: every gateway id that is a key of a special node's gateway-edge map
\* has a node record with is_gateway = true, is in node_is_gateway and in
\* all_gateway_node_ids, and has an entry in the gateway reliability cache.
C32_EdgeGatewaysAreMarked ==
    \A g \in EdgeGateways :
        /\ g \in DOMAIN nodes_data
        /\ nodes_data[g].is_gateway = Some(TRUE)
        /\ g \in DOMAIN node_is_gateway
        /\ node_is_gateway[g]
        /\ g \in all_gateway_node_ids
        /\ g \in DOMAIN gateway_reliability_cache

\* C32 witness: both gateways have an edge from node 1, and gateway 3 has
\* since reported its own name and position.
C32_BothGatewaysNamedAndPlaced ==
    /\ EdgeGateways = {3, 4}
    /\ nodes_data[3].long_name = Some("GW3")
    /\ nodes_data[3].latitude # None


----------------------------------------------------------------------------
(* SpecNames: special node 1 is heard directly by node 2 and by gateway 3, *)
(* special node 2 (which has an MQTT uplink of its own) by gateway 3; node *)
(* 3 and node 2 report their names, node 3 also an empty name, the name    *)
(* 'Unknown' and no name at all.                                           *)

ReportedNames == {None, Some(""), Some("Unknown"), Some("GW3"), Some("Relay3")}

NameMsgs ==
    { Msg(TopicVia(g), MeshPacket(1, 4 + g, <<3, 3>>, -90, 0, "TELEMETRY_APP",
                                  PayloadOf("TELEMETRY_APP"))) : g \in {2, 3} }
    \cup
    { Msg(TopicVia(3), MeshPacket(2, 8, <<3, 3>>, -90, 0, "TELEMETRY_APP",
                                  PayloadOf("TELEMETRY_APP"))) }
    \cup
    { Msg(TopicVia(4), MeshPacket(3, 9, <<3, 1>>, 0, 0, "NODEINFO_APP",
                                  UserPayload(name))) : name \in ReportedNames }
    \cup
    { Msg(TopicVia(4), MeshPacket(2, 10, hops, -90, 0, "NODEINFO_APP",
                                  UserPayload(Some("GW2")))) :
        hops \in {<<3, 3>>, <<3, 1>>} }

InitNames == InitWith(ConfigFile(NoHomeNodes, FALSE))

ReceiveNamed ==
    \E msg \in NameMsgs : Connected /\ HistoryBudget /\ Deliver(msg, TRUE)

NextNames == Connect \/ ReceiveNamed

SpecNames == InitNames /\ [][NextNames]_vars

(* the name a NodeInfo packet yields: what on_nodeinfo reads back from the *)
(* node record at line 1016                                                *)
YieldedName(msg) ==
    LET payload == msg.envelope.mp.payload
    IN IF payload.long_name # None /\ Val(payload.long_name) # ""
       THEN Val(payload.long_name) ELSE "Unknown"

NamedNodeinfo(msg) ==
    /\ msg # None
    /\ Val(msg).envelope.kind = "packet"
    /\ Val(msg).envelope.mp.portnum = "NODEINFO_APP"
    /\ Val(msg).envelope.mp.from # 0
    /\ YieldedName(Val(msg)) # "Unknown"

EdgesCarryName(gateways, cache, g, n) ==
    /\ \A s \in DOMAIN gateways :
          g \in DOMAIN gateways[s] => gateways[s][g].name = n
    /\ g \in DOMAIN cache => gateways[cache[g]][g].name = n

(* the edges of the gateways other than g, in the maps of the given nodes *)
OtherEdges(gateways, holders, g) ==
    [s \in DOMAIN gateways \cap holders |->
        [h \in DOMAIN gateways[s] \ {g} |-> gateways[s][h]]]

\* C33 (as stated): after a NodeInfo packet from node g that yields a
\* non-empty name n other than 'Unknown', every gateway edge keyed by g and
\* g's gateway_info_cache entry carry name n, and the edges of all other
\* gateways are unchanged.
C33_NameReachesEveryEdgeOthersUnchanged ==
    [][NamedNodeinfo(last_msg') =>
          LET g == Val(last_msg').envelope.mp.from
          IN /\ EdgesCarryName(special_node_gateways', gateway_info_cache', g,
                            YieldedName(Val(last_msg')))
             /\ OtherEdges(special_node_gateways', SpecialIds \cup GatewayIds, g)
                  = OtherEdges(special_node_gateways, SpecialIds \cup GatewayIds, g)]_vars

\* C33 (amended): after a NodeInfo packet from node g that yields a
\* non-empty name n other than 'Unknown', every gateway edge keyed by g and
\* g's gateway_info_cache entry carry name n, and the edges of all other
\* gateways in the maps of the special nodes other than g are unchanged.
C33_NameReachesEveryEdgeOtherMapsUnchanged ==
    [][NamedNodeinfo(last_msg') =>
          LET g == Val(last_msg').envelope.mp.from
          IN /\ EdgesCarryName(special_node_gateways', gateway_info_cache', g,
                            YieldedName(Val(last_msg')))
             /\ OtherEdges(special_node_gateways', (SpecialIds \cup GatewayIds) \ {g}, g)
                  = OtherEdges(special_node_gateways, (SpecialIds \cup GatewayIds) \ {g}, g)]_vars

(* node 3, keyed in the maps of both special nodes and in the cache, has   *)
(* been renamed by its latest NodeInfo while node 1 keeps its edge to 2    *)
C33_RenamedGatewayOnBothMaps ==
    /\ NamedNodeinfo(last_msg)
    /\ Val(last_msg).envelope.mp.from = 3
    /\ YieldedName(Val(last_msg)) = "Relay3"
    /\ \A s \in {1, 2} : s \in DOMAIN special_node_gateways
                          /\ 3 \in DOMAIN special_node_gateways[s]
    /\ 2 \in DOMAIN special_node_gateways[1]
    /\ 3 \in DOMAIN gateway_info_cache
    /\ nodes_data[3].long_name = Some("Relay3")


----------------------------------------------------------------------------
(* SpecMapReport: special node 1 and node 5 report each of the nine modem  *)
(* presets in MapReport packets, heard directly by gateway 4.              *)

(* The names of Config.LoRaConfig.ModemPreset in the Meshtastic protobufs, *)
(* as listed at lines 1412-1415: the name of value p is at p + 1           *)
ModemPresetEnumNames ==
    << "LONG_FAST", "LONG_SLOW", "VERY_LONG_SLOW", "MEDIUM_SLOW", "MEDIUM_FAST",
       "SHORT_SLOW", "SHORT_FAST", "LONG_MODERATE", "SHORT_TURBO" >>

ModemPresets == 0..8

(* _protobuf_to_json of a MapReport: MessageToJson writes an enum field as *)
(* the name of its value and leaves a field with the default value 0 out   *)
MapReportToJson(modem_preset) ==
    MapReportPayload(IF modem_preset = 0 THEN None
                     ELSE Some(JsonStr(ModemPresetEnumNames[modem_preset + 1])))

(* a MapReport message; map_report is the report as it is sent *)
MapReportMsg(from, modem_preset) ==
    [topic |-> TopicVia(4),
     envelope |-> [kind |-> "packet",
                   mp |-> MeshPacket(from, 7, <<3, 3>>, -90, 0, "MAP_REPORT_APP",
                                     MapReportToJson(modem_preset)),
                   map_report |-> [modem_preset |-> modem_preset]]]

MapReportMsgs == { MapReportMsg(from, p) : from \in {1, 5}, p \in ModemPresets }

InitMapReport == InitWith(ConfigFile(NoHomeNodes, FALSE))

ReceiveMapReport ==
    \E msg \in MapReportMsgs : Connected /\ Deliver(msg, TRUE)

NextMapReport == Connect \/ ReceiveMapReport

SpecMapReport == InitMapReport /\ [][NextMapReport]_vars

DeliveredMapReport(msg) ==
    /\ msg # None
    /\ Val(msg).envelope.kind = "packet"
    /\ Val(msg).envelope.mp.portnum = "MAP_REPORT_APP"

\* C34: after a MapReport with numeric modem preset p in 0..8, the sender's
\* modem_preset is the p-th name of LongFast, LongSlow, VeryLongSlow,
\* MediumSlow, MediumFast, ShortSlow, ShortFast, LongModerate, ShortTurbo.
C34_PresetNumberBecomesName ==
    DeliveredMapReport(last_msg) =>
        nodes_data[Val(last_msg).envelope.mp.from].modem_preset =
            Some(preset_names[Val(last_msg).envelope.map_report.modem_preset + 1])


----------------------------------------------------------------------------
(* SpecTelemetry: special node 1 and node 5, neither with a power sensor,  *)
(* send device metrics with or without a battery level and a voltage,      *)
(* heard directly by gateway 4.                                            *)

(* 101 is the battery level of a node on external power; a level of 0 is   *)
(* the proto3 default and does not appear in the payload                   *)
BatteryLevels == {None, Some(80), Some(101)}
Voltages == {None} \cup {Some(mv) : mv \in {2800, 3264, 3700, 4250}}

TelemetryMsgs ==
    { Msg(TopicVia(4), MeshPacket(from, 7, <<3, 3>>, -90, 0, "TELEMETRY_APP",
                                  TelemetryPayload(battery_level, voltage))) :
        from \in {1, 5}, battery_level \in BatteryLevels, voltage \in Voltages }

InitTelemetry == InitWith(ConfigFile(NoHomeNodes, FALSE))

ReceiveTelemetry ==
    \E msg \in TelemetryMsgs : Connected /\ HistoryBudget /\ Deliver(msg, TRUE)

NextTelemetry == Connect \/ ReceiveTelemetry

SpecTelemetry == InitTelemetry /\ [][NextTelemetry]_vars

DeliveredTelemetry(msg) ==
    /\ msg # None
    /\ Val(msg).envelope.kind = "packet"
    /\ Val(msg).envelope.mp.portnum = "TELEMETRY_APP"

(* int((v - 2.8) / 1.45 * 100) for v volts = mv millivolts *)
StatedPercent(mv) ==
    IF mv <= 2800 THEN 0
    ELSE IF mv >= 4250 THEN 100
    ELSE IntTrunc((mv - 2800) * 100, 1450)

\* C35: the stored battery percentage of a node is null or an integer in
\* [0, 100]; after telemetry of a node without power sensor that carries no
\* battery_level but a voltage v, it is 0 for v <= 2.8, 100 for v >= 4.25
\* and int((v - 2.8) / 1.45 * 100) in between.
C35_BatteryInRangeAndEstimated ==
    /\ \A n \in DOMAIN nodes_data :
          nodes_data[n].battery = None \/ Val(nodes_data[n].battery) \in 0..100
    /\ (/\ DeliveredTelemetry(last_msg)
        /\ Val(last_msg).envelope.mp.payload.battery_level = None
        /\ Val(last_msg).envelope.mp.payload.voltage # None) =>
           nodes_data[Val(last_msg).envelope.mp.from].battery =
               Some(StatedPercent(Val(Val(last_msg).envelope.mp.payload.voltage)))


----------------------------------------------------------------------------
(* SpecStatus: the tracker starts with any [app_features] section, packets *)
(* of node 1 arrive while the clock advances, show_gateways is switched    *)
(* through the HTTP endpoint, and the status is asked for.                 *)

InitStatus ==
    \E show_all_nodes, show_gateways \in BOOLEAN :
        InitFeatures(ConfigFile(NoHomeNodes, FALSE),
                     [show_all_nodes |-> show_all_nodes,
                      show_gateways |-> show_gateways])

StatusMsg ==
    Msg(TopicVia(4), MeshPacket(1, 7, <<3, 3>>, -90, 0, "TELEMETRY_APP",
                                PayloadOf("TELEMETRY_APP")))

ReceiveStatusPacket == Connected /\ Deliver(StatusMsg, TRUE)

(* main.py lines 489-501: update_show_gateways.  reload_mqtt_subscriptions *)
(* unsubscribes and subscribes again to the same wildcard topic.           *)
update_show_gateways(S, show_gateways) ==
    [S EXCEPT !.app_features.show_gateways = show_gateways]

PostShowGateways ==
    \E show_gateways \in BOOLEAN :
        /\ app_features.show_gateways # show_gateways
        /\ Step(update_show_gateways(St, show_gateways))

(* the answer of is_connected() with what it was computed from *)
StatusReply(S) ==
    [status |-> is_connected(S, StalenessThreshold(S.app_features.show_all_nodes,
                                                   S.app_features.show_gateways)),
     staleness_threshold |-> StalenessThreshold(S.app_features.show_all_nodes,
                                                S.app_features.show_gateways),
     had_packet |-> S.packets_received /\ S.last_packet_time > 0,
     age |-> S.now - S.last_packet_time,
     app_features |-> S.app_features]

CallIsConnected ==
    /\ status_reply # Some(StatusReply(St))
    /\ Step([St EXCEPT !.status_reply = Some(StatusReply(St))])

NextStatus ==
    Connect \/ ReceiveStatusPacket \/ Tick \/ PostShowGateways \/ CallIsConnected

SpecStatus == InitStatus /\ [][NextStatus]_vars

(* both switches off: "special-nodes-only mode" at line 2015 *)
SpecialNodesOnly(features) == ~features.show_all_nodes /\ ~features.show_gateways

(* a last packet older than 5 minutes and younger than 60 (10 minutes in   *)
(* the example; one clock tick here)                                       *)
BetweenThresholds(reply) ==
    /\ reply.had_packet
    /\ reply.age >= PACKET_STALENESS_THRESHOLD_ALL_NODES
    /\ reply.age < PACKET_STALENESS_THRESHOLD_SPECIAL_ONLY

ThresholdFollowsMode(reply) ==
    reply.staleness_threshold =
        IF SpecialNodesOnly(reply.app_features)
        THEN PACKET_STALENESS_THRESHOLD_SPECIAL_ONLY
        ELSE PACKET_STALENESS_THRESHOLD_ALL_NODES

\* C36 (as stated): is_connected() uses the 60-minute threshold exactly in
\* special-nodes-only mode and the 5-minute threshold otherwise; a last
\* packet 10 minutes old is 'receiving_packets' with SHOW_ALL_NODES false
\* and 'stale_data' with SHOW_ALL_NODES true.
C36_StatusByShowAllNodes ==
    status_reply # None =>
        /\ ThresholdFollowsMode(Val(status_reply))
        /\ BetweenThresholds(Val(status_reply)) =>
              Val(status_reply).status =
                  IF Val(status_reply).app_features.show_all_nodes
                  THEN "stale_data" ELSE "receiving_packets"

\* C36 (amended): is_connected() uses the 60-minute threshold exactly when
\* SHOW_ALL_NODES and SHOW_GATEWAYS are both false and the 5-minute
\* threshold otherwise; a last packet 10 minutes old is 'receiving_packets'
\* with both false and 'stale_data' with either of them true.
C36_StatusByBothSwitches ==
    status_reply # None =>
        /\ ThresholdFollowsMode(Val(status_reply))
        /\ BetweenThresholds(Val(status_reply)) =>
              Val(status_reply).status =
                  IF SpecialNodesOnly(Val(status_reply).app_features)
                  THEN "receiving_packets" ELSE "stale_data"

(* the status has been asked for in special-nodes-only mode, one tick      *)
(* after the last packet                                                   *)
C36_AskedInSpecialOnlyMode ==
    /\ status_reply # None
    /\ BetweenThresholds(Val(status_reply))
    /\ SpecialNodesOnly(Val(status_reply).app_features)
    /\ Val(status_reply).status = "receiving_packets"


(* telemetry without battery information: neither battery_level nor voltage *)
NoBatteryInformation(msg) ==
    /\ DeliveredTelemetry(msg)
    /\ Val(msg).envelope.mp.payload.battery_level = None
    /\ Val(msg).envelope.mp.payload.voltage = None

\* C37: a telemetry packet without battery information leaves the stored
\* battery and voltage of the node unchanged, as it leaves the merged
\* telemetry sub-fields unchanged.
C37_NoBatteryInformationKeepsBattery ==
    [][(/\ NoBatteryInformation(last_msg')
        /\ Val(last_msg').envelope.mp.from \in DOMAIN nodes_data) =>
          LET n == Val(last_msg').envelope.mp.from
          IN /\ nodes_data'[n].battery = nodes_data[n].battery
             /\ nodes_data'[n].voltage = nodes_data[n].voltage
             /\ nodes_data[n].telemetry # None =>
                   nodes_data'[n].telemetry = nodes_data[n].telemetry]_vars

\* C37 (the merged sub-fields alone): a telemetry packet without battery
\* information leaves the merged telemetry sub-fields unchanged.
MergedFieldsKept ==
    [][(/\ NoBatteryInformation(last_msg')
        /\ Val(last_msg').envelope.mp.from \in DOMAIN nodes_data
        /\ nodes_data[Val(last_msg').envelope.mp.from].telemetry # None) =>
          nodes_data'[Val(last_msg').envelope.mp.from].telemetry
              = nodes_data[Val(last_msg').envelope.mp.from].telemetry]_vars


(* the archive entry the dedup index points to; stored_index counts from 0 *)
IndexedEntryHasId(s, p) ==
    /\ s \in DOMAIN special_node_packets
    /\ _packet_id_tracking[s][p].stored_index \in 0..(Len(special_node_packets[s]) - 1)
    /\ special_node_packets[s][_packet_id_tracking[s][p].stored_index + 1].id = Some(p)

\* C38: for every special node s and packet id p in the dedup index, the
\* stored_index is a valid index of s's packet archive and the entry there
\* has id p; conversely the id of every archive entry is in the index.
C38_IndexAndArchiveAgree ==
    /\ \A s \in DOMAIN _packet_id_tracking :
          \A p \in DOMAIN _packet_id_tracking[s] : IndexedEntryHasId(s, p)
    /\ \A s \in DOMAIN special_node_packets :
          \A i \in 1..Len(special_node_packets[s]) :
              /\ special_node_packets[s][i].id # None
              /\ s \in DOMAIN _packet_id_tracking
              /\ Val(special_node_packets[s][i].id) \in DOMAIN _packet_id_tracking[s]

(* packets 7 and 8 of node 1 are archived, and the entry of packet 7 is a  *)
(* stronger copy that took the place of the first                          *)
C38_TwoIdsOneReplaced ==
    /\ 1 \in DOMAIN special_node_packets
    /\ Len(special_node_packets[1]) = 2
    /\ DOMAIN _packet_id_tracking[1] = {7, 8}
    /\ _packet_id_tracking[1][8].stored_index = 0
    /\ special_node_packets[1][2].rx_rssi = Some(-60)
    /\ last_track.did = "replaced"


----------------------------------------------------------------------------
(* SpecReliability: special nodes 1 and 2 are both heard by gateway 3,     *)
(* strongly or weakly, node 2 also in a packet without hop_start, and node *)
(* 1 also by gateway 4.  Every copy is a packet of its own.                *)

DetectionMsgs ==
    { Msg(TopicVia(3), MeshPacket(1, 11, <<3, 3>>, -60, 0, "TELEMETRY_APP",
                                  PayloadOf("TELEMETRY_APP"))),
      Msg(TopicVia(3), MeshPacket(1, 12, <<3, 3>>, -110, 0, "TELEMETRY_APP",
                                  PayloadOf("TELEMETRY_APP"))),
      Msg(TopicVia(4), MeshPacket(1, 13, <<3, 3>>, -90, 0, "TELEMETRY_APP",
                                  PayloadOf("TELEMETRY_APP"))),
      Msg(TopicVia(3), MeshPacket(2, 21, <<3, 3>>, -95, 0, "TELEMETRY_APP",
                                  PayloadOf("TELEMETRY_APP"))),
      Msg(TopicVia(3), MeshPacket(2, 22, <<0, 3>>, -130, 0, "TELEMETRY_APP",
                                  PayloadOf("TELEMETRY_APP"))) }

InitReliability == InitWith(ConfigFile(NoHomeNodes, FALSE))

ReceiveDetection ==
    \E msg \in DetectionMsgs : Connected /\ HistoryBudget /\ Deliver(msg, TRUE)

NextReliability == Connect \/ ReceiveDetection

SpecReliability == InitReliability /\ [][NextReliability]_vars

(* the special nodes whose edge map contains gateway g *)
EdgeHolders(g) ==
    {s \in DOMAIN special_node_gateways : g \in DOMAIN special_node_gateways[s]}

(* the current edges to gateway g, in the order of the edge maps *)
CurrentDetections(g) ==
    LET holders == SelectSeq(special_node_gateways_order,
                             LAMBDA s : g \in DOMAIN special_node_gateways[s])
    IN [i \in 1..Len(holders) |-> special_node_gateways[holders[i]][g]]

\* C39: for every gateway g in the reliability cache, detection_count is
\* the number of special nodes whose edge map contains g, confidence_level
\* is 'direct' exactly when one of those edges is direct, and score is an
\* integer in [0, 100] equal to the score recomputed from the current edges.
C39_CacheMatchesEdges ==
    \A g \in DOMAIN gateway_reliability_cache :
        /\ gateway_reliability_cache[g].detection_count = Cardinality(EdgeHolders(g))
        /\ (gateway_reliability_cache[g].confidence_level = "direct") <=>
              (\E s \in EdgeHolders(g) : special_node_gateways[s][g].confidence = "direct")
        /\ gateway_reliability_cache[g].score \in 0..100
        /\ gateway_reliability_cache[g].score =
              _calculate_gateway_reliability_score(CurrentDetections(g)).score

(* gateway 3 is held by both special nodes, by node 1 with a weak edge     *)
(* that took the place of a strong one: 40 + 20 + int(-102.5 + 120)        *)
C39_TwoHoldersAfterWeakerCopy ==
    /\ EdgeHolders(3) = {1, 2}
    /\ special_node_gateways[1][3].rssi = Some(-110)
    /\ Len(special_node_packets[1]) = 3
    /\ gateway_reliability_cache[3].detection_count = 2
    /\ gateway_reliability_cache[3].score = 77


----------------------------------------------------------------------------
(* SpecStartupFair: SpecStartup where HTTP requests keep arriving and the  *)
(* request threads and the background threads they start keep running:     *)
(* the hook, the statements of start_mqtt_on_startup and the first          *)
(* statement of connect_mqtt are taken when they stay enabled.             *)

SpecStartupFair ==
    /\ SpecStartup
    /\ WF_vars(HookCallsStart)
    /\ WF_vars(CallerReap)
    /\ WF_vars(CallerTest)
    /\ WF_vars(CallerCreate)
    /\ WF_vars(CallerStart)
    /\ WF_vars(ThreadCheck)

(* the thread the global mqtt_thread names has returned *)
BackgroundThreadDead ==
    /\ main_mqtt_thread # None
    /\ background_threads[Val(main_mqtt_thread)].pc = "exited"

(* a background thread created after the first n has called connect_mqtt *)
AttemptAfter(n) ==
    \E t \in DOMAIN background_threads :
        t > n /\ background_threads[t].pc \notin {"unstarted", "check"}

(* every thread of the run has been created *)
NoThreadLeft == Len(background_threads) = MaxThreads

(* a thread is created, by the statement at main.py:288 *)
ThreadCreated == Len(background_threads') > Len(background_threads)

(* mqtt_thread.start() at main.py:289, called by request thread h, starts *)
(* a thread                                                                *)
StartCallStartsThread(h) ==
    (request_threads[h] = "start" /\ request_threads'[h] = "idle") =>
        \E t \in DOMAIN background_threads :
            /\ background_threads[t].pc = "unstarted"
            /\ background_threads'[t].pc = "check"

\* C40: whenever the MQTT background thread is not alive, a new connection
\* attempt is eventually made: the HTTP request that finds it so starts a
\* new background thread, which calls connect_mqtt; and a new thread is
\* created only by a request thread running the hook.
C40_DeadThreadRestartedByRequest ==
    /\ \A n \in 1..(MaxThreads - 1) :
          (BackgroundThreadDead /\ Len(background_threads) = n) ~> AttemptAfter(n)
    /\ [][\A h \in RequestThreads : StartCallStartsThread(h)]_vars
    /\ [][(ThreadCreated /\ Len(background_threads) >= 1) =>
              \E h \in RequestThreads : request_threads[h] = "create"]_vars

\* C40 (what holds): a dead background thread is followed by a call of
\* connect_mqtt in a newer thread unless the run has no thread left, and a
\* new thread is created only by a request thread running the hook.
RestartedUnlessNoThreadLeft ==
    /\ \A n \in 1..(MaxThreads - 1) :
          (BackgroundThreadDead /\ Len(background_threads) = n)
              ~> (AttemptAfter(n) \/ NoThreadLeft)
    /\ [][(ThreadCreated /\ Len(background_threads) >= 1) =>
              \E h \in RequestThreads : request_threads[h] = "create"]_vars

=============================================================================
